---- MODULE Spec2Model ----
(***************************************************************************)
(* quick-avl: an AVL tree used as an ordered key-value map.                *)
(*                                                                         *)
(* The node graph is a heap of node records (key, value, parent, left,     *)
(* right, balanceFactor) addressed by node identity; the tree owns a root  *)
(* reference and a size counter.  Every operator below is the translation  *)
(* of one function of avl-tree-utils.ts / avl-tree.ts; a thrown Error is   *)
(* modelled by the err field: once it is set the remaining statements of   *)
(* the call chain are skipped and the links written so far stay written.   *)
(***************************************************************************)
EXTENDS Integers, Sequences, FiniteSets, TLC

\* ---- bounds ----
MaxKey == 7          \* keys are 1..MaxKey
MaxMapKey == 5       \* SpecMap: keys are 1..MaxMapKey ...
MaxVal == 2          \* ... and values are 1..MaxVal
MaxCalls == 6        \* scenarios: the number of calls made
MaxDeepDeletes == 3  \* SpecDeep: the number of deletes after the tree is built
MaxUtilCalls == 2    \* SpecUtils: the number of calls of avl-tree-utils functions
MaxIterKey == 4      \* SpecIterators: keys are 1..MaxIterKey
MaxIterators == 2    \* SpecIterators: the number of generator objects obtained
MaxStepCalls == 2    \* SpecSteps: the number of calls followed step by step
MaxStaleKey == 3     \* SpecStale: keys 1..MaxStaleKey
MaxStaleCalls == 6   \* SpecStale: the number of calls

Nil == 0             \* undefined reference / undefined result
This == -1           \* the tree itself, as a returned reference (return this)
Keys == 1..MaxKey
Values == 1..MaxVal
MapKeys == 1..MaxMapKey
NodeIds == 1..(2 * MaxKey)

VARIABLES
    heap,      \* node identity -> node record (key Nil: no such object exists)
    root,      \* AvlTree._root (Nil when empty)
    size,      \* AvlTree._size
    last,      \* the call just completed: operation, arguments, result, error
    contents,  \* abstract map: key -> value of its last successful insert, Nil if absent
    calls,     \* the calls made so far, where a scenario is followed (else empty)
    iterators, \* the generator objects obtained from the tree: each one's stack
               \* and position and the entries it has yielded so far
    running    \* the call in progress and the variables of its loop, where
               \* calls are followed one loop iteration at a time (else idle)

vars == <<heap, root, size, last, contents, calls, iterators, running>>

\* const v = ...; rest(v)
With(v, rest(_)) == CHOOSE r \in {rest(x) : x \in {v}} : TRUE

\* ---- comparison function ----
defaultCompareFunction(a, b) == IF a < b THEN -1 ELSE IF a > b THEN 1 ELSE 0

compareFunction(a, b) == defaultCompareFunction(a, b)

\* ---- errors ----
NoError == "none"
ErrRotateLeft == "Cannot rotate left without a right child"
ErrRotateRight == "Cannot rotate right without a left child"
ErrNoParent == "Cannot disconnect child node because node has no parent"
ErrNotChild == "Invariant failed: node is not a child of its parent"
ErrNoLinkBack == "Invariant failed: node has parent that has no link back"
ErrRemovedKey == "Invariant failed: removed key found"
ErrChildNoParent == "Invariant failed: promoted child has no parent"
ErrInsertedNoParent == "Invariant failed: child inserted without parent"
ErrTypeError == "TypeError: cannot read property of undefined"
ErrKeyExists == "Key already exists"
ErrIndexOutOfBounds == "Index out of bounds"

Ok(s) == s.err = NoError
Throw(s, msg) == [s EXCEPT !.err = msg]

\* A new node object: { key, value, parent, balanceFactor: 0 }
AvlTreeNode(k, v, p) ==
    [key |-> k, value |-> v, parent |-> p, left |-> Nil, right |-> Nil, balanceFactor |-> 0]

\* ---- avl-tree-utils ----
\* A tree value s is [heap, root, size, err, ret, rot, log]: the node graph,
\* AvlTree._root, AvlTree._size, the Error thrown so far (NoError if none), the
\* node returned last, the number of rotations the call has performed so far, and
\* the steps the call has taken so far:
\*   <<"adjust", node, factor>>        node.balanceFactor was set to factor
\*   <<"leftHeavy", p, child, factor, inner>>   p is at -2 or below; its left
\*   <<"rightHeavy", p, child, factor, inner>>  (right) child, that child's
\*                                     factor and that child's inner child
\*   <<"rotateLeft", node>>, <<"rotateRight", node>>   a rotation around node
\*   <<"top", node, left, right>>      the subtree top after the restructuring
\*   <<"settled", node, factor, parent>>  delete's walk is done with node
\*   <<"substitute", node, substitute, promoted, parent>>  deleteNode puts
\*                                     substitute, the child of parent, in
\*                                     node's place and promoted in its own

Logged(s, step) == [s EXCEPT !.log = Append(@, step)]

\* The end of a function that returns nothing
Void(s) == [s EXCEPT !.ret = Nil]

\* Fault: disconnectChildNodeFromParent that always clears the left link.
disconnectAlwaysLeft(s, childNode) ==
    IF ~Ok(s) THEN s ELSE
    LET parent == s.heap[childNode].parent IN
    IF parent = Nil THEN Throw(s, ErrNoParent)
    ELSE [s EXCEPT !.heap[parent].left = Nil, !.heap[childNode].parent = Nil]

disconnectChildNodeFromParent(s, childNode) ==
    IF ~Ok(s) THEN s ELSE
    LET parent == s.heap[childNode].parent IN
    IF parent = Nil THEN Throw(s, ErrNoParent)
    ELSE IF s.heap[parent].left = childNode
         THEN [s EXCEPT !.heap[parent].left = Nil, !.heap[childNode].parent = Nil]
    ELSE IF s.heap[parent].right = childNode
         THEN [s EXCEPT !.heap[parent].right = Nil, !.heap[childNode].parent = Nil]
    ELSE Throw(s, ErrNotChild)

\* Fault: replaceChild that forgets newChild.parent = parent.
replaceChildKeepsParent(s, oldChild, newChild) ==
    IF ~Ok(s) THEN s ELSE
    LET parent == s.heap[oldChild].parent IN
    With(IF s.heap[newChild].parent # Nil
         THEN disconnectChildNodeFromParent(s, newChild)
         ELSE s, LAMBDA s1 :
    IF ~Ok(s1) THEN s1 ELSE
    With([s1 EXCEPT !.heap[oldChild].parent = Nil], LAMBDA s2 :
    IF parent = Nil THEN s2
    ELSE IF s2.heap[parent].left = oldChild
         THEN [s2 EXCEPT !.heap[parent].left = newChild]
         ELSE [s2 EXCEPT !.heap[parent].right = newChild]))

\* replaceChild without oldChild.parent = undefined
replaceChildLeavesOldParent(s, oldChild, newChild) ==
    IF ~Ok(s) THEN s ELSE
    LET parent == s.heap[oldChild].parent IN
    With(IF s.heap[newChild].parent # Nil
         THEN disconnectChildNodeFromParent(s, newChild)
         ELSE s, LAMBDA s1 :
    IF ~Ok(s1) THEN s1 ELSE
    With([s1 EXCEPT !.heap[newChild].parent = parent], LAMBDA s2 :
    IF parent = Nil THEN s2
    ELSE IF s2.heap[parent].left = oldChild
         THEN [s2 EXCEPT !.heap[parent].left = newChild]
         ELSE [s2 EXCEPT !.heap[parent].right = newChild]))

replaceChild(s, oldChild, newChild) ==
    IF ~Ok(s) THEN s ELSE
    LET parent == s.heap[oldChild].parent IN
    With(IF s.heap[newChild].parent # Nil
         THEN disconnectChildNodeFromParent(s, newChild)
         ELSE s, LAMBDA s1 :
    IF ~Ok(s1) THEN s1 ELSE
    With([s1 EXCEPT !.heap[newChild].parent = parent,
                    !.heap[oldChild].parent = Nil], LAMBDA s2 :
    IF parent = Nil THEN s2
    ELSE IF s2.heap[parent].left = oldChild
         THEN [s2 EXCEPT !.heap[parent].left = newChild]
         ELSE [s2 EXCEPT !.heap[parent].right = newChild]))

\* Fault: rotateLeft with the sign of the last correction flipped.
rotateLeftFactorsFlipped(rootBf, newRootBf) ==
    LET r1 == rootBf - 1
        r2 == IF newRootBf > 0 THEN r1 - newRootBf ELSE r1
        n1 == newRootBf - 1
        n2 == IF r2 < 0 THEN n1 - r2 ELSE n1
    IN  <<r2, n2>>

\* Balance factors after a left rotation, from the factors before it:
\* <<old root's factor, new root's factor>>
rotateLeftFactors(rootBf, newRootBf) ==
    LET r1 == rootBf - 1
        r2 == IF newRootBf > 0 THEN r1 - newRootBf ELSE r1
        n1 == newRootBf - 1
        n2 == IF r2 < 0 THEN n1 + r2 ELSE n1
    IN  <<r2, n2>>

\* rotateRightFactors without the correction of the new root's factor
rotateRightFactorsNoAbsorb(rootBf, newRootBf) ==
    LET r1 == rootBf + 1
        r2 == IF newRootBf < 0 THEN r1 - newRootBf ELSE r1
    IN  <<r2, newRootBf + 1>>

rotateRightFactors(rootBf, newRootBf) ==
    LET r1 == rootBf + 1
        r2 == IF newRootBf < 0 THEN r1 - newRootBf ELSE r1
        n1 == newRootBf + 1
        n2 == IF r2 > 0 THEN n1 + r2 ELSE n1
    IN  <<r2, n2>>

\* rotateLeft without newRoot.left.parent = root
rotateLeftForgetsBackLink(s, rt) ==
    IF ~Ok(s) THEN s ELSE
    LET newRoot == s.heap[rt].right IN
    IF newRoot = Nil THEN Throw(s, ErrRotateLeft) ELSE
    With(replaceChild(s, rt, newRoot), LAMBDA s1 :
    IF ~Ok(s1) THEN s1 ELSE
    LET nl == s1.heap[newRoot].left
        f  == rotateLeftFactors(s1.heap[rt].balanceFactor, s1.heap[newRoot].balanceFactor)
    IN  [s1 EXCEPT !.heap[rt].right = nl,
                   !.heap[newRoot].left = rt,
                   !.heap[rt].parent = newRoot,
                   !.heap[rt].balanceFactor = f[1],
                   !.heap[newRoot].balanceFactor = f[2],
                   !.rot = @ + 1,
                   !.log = Append(@, <<"rotateLeft", rt>>),
                   !.ret = newRoot])

\* rotateLeft that takes the node out of its parent before it looks for the
\* right child
rotateLeftChecksLate(s, rt) ==
    IF ~Ok(s) THEN s
    ELSE IF s.heap[rt].right = Nil
         THEN Throw(IF s.heap[rt].parent = Nil THEN s
                    ELSE disconnectChildNodeFromParent(s, rt), ErrRotateLeft)
    ELSE rotateLeftForgetsBackLink(s, rt)

rotateLeft(s, rt) ==
    IF ~Ok(s) THEN s ELSE
    LET newRoot == s.heap[rt].right IN
    IF newRoot = Nil THEN Throw(s, ErrRotateLeft) ELSE
    With(replaceChild(s, rt, newRoot), LAMBDA s1 :
    IF ~Ok(s1) THEN s1 ELSE
    LET nl == s1.heap[newRoot].left
        f  == rotateLeftFactors(s1.heap[rt].balanceFactor, s1.heap[newRoot].balanceFactor)
    IN  With([s1 EXCEPT !.heap[rt].right = nl], LAMBDA s2 :
        With(IF nl # Nil THEN [s2 EXCEPT !.heap[nl].parent = rt] ELSE s2, LAMBDA s3 :
        [s3 EXCEPT !.heap[newRoot].left = rt,
                   !.heap[rt].parent = newRoot,
                   !.heap[rt].balanceFactor = f[1],
                   !.heap[newRoot].balanceFactor = f[2],
                   !.rot = @ + 1,
                   !.log = Append(@, <<"rotateLeft", rt>>),
                   !.ret = newRoot])))

\* Fault: rotateRight that does not hand the new root's right subtree over.
rotateRightDropsInner(s, rt) ==
    IF ~Ok(s) THEN s ELSE
    LET newRoot == s.heap[rt].left IN
    IF newRoot = Nil THEN Throw(s, ErrRotateRight) ELSE
    With(replaceChild(s, rt, newRoot), LAMBDA s1 :
    IF ~Ok(s1) THEN s1 ELSE
    LET f == rotateRightFactors(s1.heap[rt].balanceFactor, s1.heap[newRoot].balanceFactor)
    IN  [s1 EXCEPT !.heap[rt].left = Nil,
                   !.heap[newRoot].right = rt,
                   !.heap[rt].parent = newRoot,
                   !.heap[rt].balanceFactor = f[1],
                   !.heap[newRoot].balanceFactor = f[2],
                   !.rot = @ + 1])

rotateRight(s, rt) ==
    IF ~Ok(s) THEN s ELSE
    LET newRoot == s.heap[rt].left IN
    IF newRoot = Nil THEN Throw(s, ErrRotateRight) ELSE
    With(replaceChild(s, rt, newRoot), LAMBDA s1 :
    IF ~Ok(s1) THEN s1 ELSE
    LET nr == s1.heap[newRoot].right
        f  == rotateRightFactors(s1.heap[rt].balanceFactor, s1.heap[newRoot].balanceFactor)
    IN  With([s1 EXCEPT !.heap[rt].left = nr], LAMBDA s2 :
        With(IF nr # Nil THEN [s2 EXCEPT !.heap[nr].parent = rt] ELSE s2, LAMBDA s3 :
        [s3 EXCEPT !.heap[newRoot].right = rt,
                   !.heap[rt].parent = newRoot,
                   !.heap[rt].balanceFactor = f[1],
                   !.heap[newRoot].balanceFactor = f[2],
                   !.rot = @ + 1,
                   !.log = Append(@, <<"rotateRight", rt>>),
                   !.ret = newRoot])))

\* replaceNode, first part: unhook the replacement from its parent and children
unhookParent(s, replacement) ==
    LET rp == s.heap[replacement].parent IN
    IF rp = Nil THEN s
    ELSE IF s.heap[rp].left = replacement
         THEN [s EXCEPT !.heap[rp].left = Nil, !.heap[replacement].parent = Nil]
    ELSE IF s.heap[rp].right = replacement
         THEN [s EXCEPT !.heap[rp].right = Nil, !.heap[replacement].parent = Nil]
    ELSE Throw(s, ErrNoLinkBack)

unhookLeft(s, replacement) ==
    LET rl == s.heap[replacement].left IN
    IF rl # Nil
    THEN [s EXCEPT !.heap[rl].parent = Nil, !.heap[replacement].left = Nil]
    ELSE s

unhookRight(s, replacement) ==
    LET rr == s.heap[replacement].right IN
    IF rr # Nil
    THEN [s EXCEPT !.heap[rr].parent = Nil, !.heap[replacement].right = Nil]
    ELSE s

\* replaceNode, second part: the parent's link to node goes to the replacement
relinkParent(s, node, replacement, parent) ==
    IF parent = Nil THEN s
    ELSE IF s.heap[parent].left = node
         THEN [s EXCEPT !.heap[parent].left = replacement,
                        !.heap[node].parent = Nil,
                        !.heap[replacement].parent = parent]
    ELSE IF s.heap[parent].right = node
         THEN [s EXCEPT !.heap[parent].right = replacement,
                        !.heap[node].parent = Nil,
                        !.heap[replacement].parent = parent]
    ELSE Throw(s, ErrNoLinkBack)

\* adoptLeft without the test leftChild !== replacement
adoptLeftEvenItself(s, node, replacement, leftChild) ==
    IF leftChild # Nil
    THEN [s EXCEPT !.heap[replacement].left = leftChild,
                   !.heap[leftChild].parent = replacement,
                   !.heap[node].left = Nil]
    ELSE [s EXCEPT !.heap[node].left = Nil]

\* replaceNode, third part: the replacement takes over node's children
adoptLeft(s, node, replacement, leftChild) ==
    IF leftChild # Nil /\ leftChild # replacement
    THEN [s EXCEPT !.heap[replacement].left = leftChild,
                   !.heap[leftChild].parent = replacement,
                   !.heap[node].left = Nil]
    ELSE [s EXCEPT !.heap[node].left = Nil]

\* adoptRight that leaves node.right as it was
adoptRightKeepsNodeLink(s, node, replacement, rightChild) ==
    IF rightChild # Nil /\ rightChild # replacement
    THEN [s EXCEPT !.heap[replacement].right = rightChild,
                   !.heap[rightChild].parent = replacement]
    ELSE s

adoptRight(s, node, replacement, rightChild) ==
    IF rightChild # Nil /\ rightChild # replacement
    THEN [s EXCEPT !.heap[replacement].right = rightChild,
                   !.heap[rightChild].parent = replacement,
                   !.heap[node].right = Nil]
    ELSE [s EXCEPT !.heap[node].right = Nil]

\* replaceNode's last statement left out
copyBalanceFactorSkipped(s, node, replacement) == s

copyBalanceFactor(s, node, replacement) ==
    [s EXCEPT !.heap[replacement].balanceFactor = s.heap[node].balanceFactor]

replaceNode(s, node, replacement) ==
    IF ~Ok(s) THEN s ELSE
    LET parent == s.heap[node].parent
        leftChild == s.heap[node].left
        rightChild == s.heap[node].right
    IN  With(unhookParent(s, replacement), LAMBDA s1 :
        IF ~Ok(s1) THEN s1 ELSE
        With(relinkParent(unhookRight(unhookLeft(s1, replacement), replacement),
                          node, replacement, parent), LAMBDA s2 :
        IF ~Ok(s2) THEN s2 ELSE
        copyBalanceFactor(
            adoptRight(adoptLeft(s2, node, replacement, leftChild),
                       node, replacement, rightChild),
            node, replacement)))

RECURSIVE computeHeight(_, _)
computeHeight(h, node) ==
    IF node = Nil THEN 0
    ELSE LET leftHeight == IF h[node].left # Nil THEN computeHeight(h, h[node].left) ELSE 0
             rightHeight == IF h[node].right # Nil THEN computeHeight(h, h[node].right) ELSE 0
         IN  (IF leftHeight > rightHeight THEN leftHeight ELSE rightHeight) + 1

\* ---- avl-tree: the tree engine ----

\* Fault: a search that never stops at an equal key.
RECURSIVE getNodeFromPastEqual(_, _, _)
getNodeFromPastEqual(h, current, key) ==
    IF current = Nil THEN Nil
    ELSE LET cmp == compareFunction(key, h[current].key) IN
         IF cmp <= 0 THEN getNodeFromPastEqual(h, h[current].left, key)
         ELSE getNodeFromPastEqual(h, h[current].right, key)

RECURSIVE getNodeFrom(_, _, _)
getNodeFrom(h, current, key) ==
    IF current = Nil THEN Nil
    ELSE LET cmp == compareFunction(key, h[current].key) IN
         IF cmp < 0 THEN getNodeFrom(h, h[current].left, key)
         ELSE IF cmp > 0 THEN getNodeFrom(h, h[current].right, key)
         ELSE current

getNode(s, key) == getNodeFrom(s.heap, s.root, key)

has(s, key) == getNode(s, key) # Nil

get(s, key) == With(getNode(s, key), LAMBDA n : IF n = Nil THEN Nil ELSE s.heap[n].value)

\* Replace root if necessary
replaceRoot(s, oldRoot, newRoot) ==
    IF Ok(s) /\ oldRoot = s.root THEN [s EXCEPT !.root = newRoot] ELSE s

\* Fault: the left-heavy case without the inner rotation.
rotateLeftHeavySingle(s, parent) ==
    [s |-> replaceRoot(rotateRight(s, parent), parent, s.heap[parent].left),
     top |-> s.heap[parent].left]

\* The step <<side, p, child, child's factor, child's inner child>>
Noted(s, side, p, child, inner) ==
    Logged(s, IF child = Nil THEN <<side, p, Nil, 0, Nil>>
              ELSE <<side, p, child, s.heap[child].balanceFactor,
                     IF inner = "right" THEN s.heap[child].right ELSE s.heap[child].left>>)

\* The step <<"top", node, left, right>>
Topped(s, top) ==
    IF Ok(s) /\ top # Nil
    THEN Logged(s, <<"top", top, s.heap[top].left, s.heap[top].right>>)
    ELSE s

\* The +-2 case of both rebalancing loops: optional inner rotation, outer
\* rotation, root replacement.  Yields the tree and the new subtree top.
rotateLeftHeavy(s, parent) ==
    LET pl == s.heap[parent].left IN
    With(IF pl # Nil /\ s.heap[pl].balanceFactor > 0
         THEN rotateLeft(Noted(s, "leftHeavy", parent, pl, "right"), pl)
         ELSE Noted(s, "leftHeavy", parent, pl, "right"),
         LAMBDA s1 :
    [s |-> Topped(replaceRoot(rotateRight(s1, parent), parent, s1.heap[parent].left),
                  s1.heap[parent].left),
     top |-> s1.heap[parent].left])

\* Fault: the right-heavy case left as it is.
rotateRightHeavySkipped(s, parent) == [s |-> s, top |-> parent]

\* rotateRightHeavy without the rotation of a left-heavy right child
rotateRightHeavyOuterOnly(s, parent) ==
    LET pr == s.heap[parent].right IN
    With(Noted(s, "rightHeavy", parent, pr, "left"), LAMBDA s1 :
    [s |-> Topped(replaceRoot(rotateLeft(s1, parent), parent, s1.heap[parent].right),
                  s1.heap[parent].right),
     top |-> s1.heap[parent].right])

rotateRightHeavy(s, parent) ==
    LET pr == s.heap[parent].right IN
    With(IF pr # Nil /\ s.heap[pr].balanceFactor < 0
         THEN rotateRight(Noted(s, "rightHeavy", parent, pr, "left"), pr)
         ELSE Noted(s, "rightHeavy", parent, pr, "left"),
         LAMBDA s1 :
    [s |-> Topped(replaceRoot(rotateLeft(s1, parent), parent, s1.heap[parent].right),
                  s1.heap[parent].right),
     top |-> s1.heap[parent].right])

\* node.balanceFactor += d
adjust(s, node, d) ==
    Logged([s EXCEPT !.heap[node].balanceFactor = @ + d],
           <<"adjust", node, s.heap[node].balanceFactor + d>>)

\* parent.balanceFactor += d when the update came up from child
adjustForInsertion(s, child, parent) ==
    IF s.heap[parent].left = child
    THEN adjust(s, parent, 0 - 1)
    ELSE IF s.heap[parent].right = child
    THEN adjust(s, parent, 1)
    ELSE Throw(s, ErrNotChild)

\* insertionWalk without the break after the restructuring
RECURSIVE insertionWalkPastRotation(_, _, _)
insertionWalkPastRotation(s, child, parent) ==
    IF ~Ok(s) \/ parent = Nil THEN s ELSE
    With(adjustForInsertion(s, child, parent), LAMBDA s1 :
    IF ~Ok(s1) THEN s1
    ELSE IF s1.heap[parent].balanceFactor = 0 THEN s1
    ELSE With(IF s1.heap[parent].balanceFactor < -1 THEN rotateLeftHeavy(s1, parent)
              ELSE IF s1.heap[parent].balanceFactor > 1 THEN rotateRightHeavy(s1, parent)
              ELSE [s |-> s1, top |-> parent], LAMBDA r :
         IF ~Ok(r.s) THEN r.s
         ELSE insertionWalkPastRotation(r.s, r.top, r.s.heap[r.top].parent)))

\* insertionWalk without the break at balance factor 0
RECURSIVE insertionWalkPastZero(_, _, _)
insertionWalkPastZero(s, child, parent) ==
    IF ~Ok(s) \/ parent = Nil THEN s ELSE
    With(adjustForInsertion(s, child, parent), LAMBDA s1 :
    IF ~Ok(s1) THEN s1
    ELSE IF s1.heap[parent].balanceFactor < -1 THEN rotateLeftHeavy(s1, parent).s
    ELSE IF s1.heap[parent].balanceFactor > 1 THEN rotateRightHeavy(s1, parent).s
    ELSE insertionWalkPastZero(s1, parent, s1.heap[parent].parent))

RECURSIVE insertionWalk(_, _, _)
insertionWalk(s, child, parent) ==
    IF ~Ok(s) \/ parent = Nil THEN s ELSE
    With(adjustForInsertion(s, child, parent), LAMBDA s1 :
    IF ~Ok(s1) THEN s1
    ELSE IF s1.heap[parent].balanceFactor = 0 THEN s1
    ELSE IF s1.heap[parent].balanceFactor < -1 THEN rotateLeftHeavy(s1, parent).s
    ELSE IF s1.heap[parent].balanceFactor > 1 THEN rotateRightHeavy(s1, parent).s
    ELSE insertionWalk(s1, parent, s1.heap[parent].parent))

rebalanceAfterInsertion(s, child) ==
    IF ~Ok(s) THEN s
    ELSE IF s.heap[child].parent = Nil THEN Throw(s, ErrInsertedNoParent)
    ELSE insertionWalk(s, child, s.heap[child].parent)

\* The downward walk of insert: <<parent, cmp>> of the insertion spot,
\* or <<Nil, 0>> when the key is already present.
RECURSIVE insertionSpot(_, _, _, _, _)
insertionSpot(h, current, parent, cmp, key) ==
    IF current = Nil THEN <<parent, cmp>>
    ELSE LET c == compareFunction(key, h[current].key) IN
         IF c < 0 THEN insertionSpot(h, h[current].left, current, c, key)
         ELSE IF c > 0 THEN insertionSpot(h, h[current].right, current, c, key)
         ELSE <<Nil, 0>>

\* Fault: attach that takes the sign of the comparison the wrong way round.
attachOtherSide(s, key, value, newNode, parent, cmp) ==
    With(rebalanceAfterInsertion(
             [s EXCEPT !.heap[newNode] = AvlTreeNode(key, value, parent),
                       !.heap[parent] = IF cmp > 0 THEN [@ EXCEPT !.left = newNode]
                                                   ELSE [@ EXCEPT !.right = newNode],
                       !.size = @ + 1],
             newNode), LAMBDA s1 :
    IF Ok(s1) THEN [s1 EXCEPT !.ret = newNode] ELSE s1)

\* insert, after the downward walk: attach newNode under parent and rebalance
attach(s, key, value, newNode, parent, cmp) ==
    With(rebalanceAfterInsertion(
             [s EXCEPT !.heap[newNode] = AvlTreeNode(key, value, parent),
                       !.heap[parent] = IF cmp < 0 THEN [@ EXCEPT !.left = newNode]
                                                   ELSE [@ EXCEPT !.right = newNode],
                       !.size = @ + 1],
             newNode), LAMBDA s1 :
    IF Ok(s1) THEN [s1 EXCEPT !.ret = newNode] ELSE s1)

\* Fault: insert that writes the value into the node of an existing key.
insertOverwrites(s, key, value, newNode) ==
    IF s.root = Nil
    THEN [s EXCEPT !.heap[newNode] = AvlTreeNode(key, value, Nil),
                   !.root = newNode, !.size = @ + 1, !.ret = newNode]
    ELSE With(insertionSpot(s.heap, s.root, Nil, 0, key), LAMBDA spot :
         IF spot[1] = Nil
         THEN [s EXCEPT !.heap[getNode(s, key)].value = value, !.ret = Nil]
         ELSE attach(s, key, value, newNode, spot[1], spot[2]))

\* insert(key, value); newNode is the identity of the object the call creates
insert(s, key, value, newNode) ==
    IF s.root = Nil
    THEN [s EXCEPT !.heap[newNode] = AvlTreeNode(key, value, Nil),
                   !.root = newNode, !.size = @ + 1, !.ret = newNode]
    ELSE With(insertionSpot(s.heap, s.root, Nil, 0, key), LAMBDA spot :
         IF spot[1] = Nil THEN [s EXCEPT !.ret = Nil]
         ELSE attach(s, key, value, newNode, spot[1], spot[2]))

\* Fault: set that stores the value under a key that already exists.
setOverwrites(s, key, value, newNode) ==
    With(insert(s, key, value, newNode), LAMBDA s1 :
    IF ~Ok(s1) THEN s1
    ELSE IF s1.ret = Nil
         THEN [s1 EXCEPT !.heap[getNode(s1, key)].value = value, !.ret = This]
    ELSE [s1 EXCEPT !.ret = This])

set(s, key, value, newNode) ==
    With(insert(s, key, value, newNode), LAMBDA s1 :
    IF ~Ok(s1) THEN s1
    ELSE IF s1.ret = Nil THEN Throw(s1, ErrKeyExists)
    ELSE [s1 EXCEPT !.ret = This])

\* Fault: clear that forgets the size counter.
clearKeepsSize(s) == [s EXCEPT !.root = Nil]

\* clear that resets the size only
clearKeepsRoot(s) == [s EXCEPT !.size = 0]

clear(s) == [s EXCEPT !.root = Nil, !.size = 0]

RECURSIVE rightmost(_, _)
rightmost(h, n) == IF h[n].right = Nil THEN n ELSE rightmost(h, h[n].right)

RECURSIVE leftmost(_, _)
leftmost(h, n) == IF h[n].left = Nil THEN n ELSE leftmost(h, h[n].left)

\* parent?.left === node
isLeftChild(h, node) == h[node].parent # Nil /\ h[h[node].parent].left = node

\* parent.balanceFactor += d when the removal came up from child (or, at the
\* start node, from the recorded side)
adjustForDeletion(s, parent, child, removedChildWasOnLeft) ==
    LET wasRemovedFromLeft == IF child # Nil THEN s.heap[parent].left = child
                                             ELSE removedChildWasOnLeft
        wasRemovedFromRight == IF child # Nil THEN s.heap[parent].right = child
                                              ELSE ~removedChildWasOnLeft
    IN  IF wasRemovedFromLeft
        THEN adjust(s, parent, 1)
        ELSE IF wasRemovedFromRight
        THEN adjust(s, parent, 0 - 1)
        ELSE Throw(s, ErrRemovedKey)

\* The step <<"settled", node, factor, parent>>
Settled(s, node) ==
    Logged(s, <<"settled", node, s.heap[node].balanceFactor, s.heap[node].parent>>)

\* deletionWalk with the break of the insertion walk after a rotation
RECURSIVE deletionWalkStopsAtRotation(_, _, _, _)
deletionWalkStopsAtRotation(s, parent, child, removedChildWasOnLeft) ==
    IF ~Ok(s) \/ parent = Nil THEN s ELSE
    With(adjustForDeletion(s, parent, child, removedChildWasOnLeft), LAMBDA s1 :
    IF ~Ok(s1) THEN s1
    ELSE IF s1.heap[parent].balanceFactor < -1
         THEN With(rotateLeftHeavy(s1, parent), LAMBDA r :
                   IF Ok(r.s) THEN Settled(r.s, r.top) ELSE r.s)
    ELSE IF s1.heap[parent].balanceFactor > 1
         THEN With(rotateRightHeavy(s1, parent), LAMBDA r :
                   IF Ok(r.s) THEN Settled(r.s, r.top) ELSE r.s)
    ELSE IF s1.heap[parent].balanceFactor = 1 \/ s1.heap[parent].balanceFactor = -1
         THEN Settled(s1, parent)
    ELSE deletionWalkStopsAtRotation(Settled(s1, parent), s1.heap[parent].parent, parent,
                                     removedChildWasOnLeft))

RECURSIVE deletionWalk(_, _, _, _)
deletionWalk(s, parent, child, removedChildWasOnLeft) ==
    IF ~Ok(s) \/ parent = Nil THEN s ELSE
    With(adjustForDeletion(s, parent, child, removedChildWasOnLeft), LAMBDA s1 :
    IF ~Ok(s1) THEN s1 ELSE
    With(IF s1.heap[parent].balanceFactor < -1 THEN rotateLeftHeavy(s1, parent)
         ELSE IF s1.heap[parent].balanceFactor > 1 THEN rotateRightHeavy(s1, parent)
         ELSE [s |-> s1, top |-> parent], LAMBDA r :
    IF ~Ok(r.s) THEN r.s
    ELSE IF r.s.heap[r.top].balanceFactor = 1 \/ r.s.heap[r.top].balanceFactor = -1
         THEN Settled(r.s, r.top)
    ELSE deletionWalk(Settled(r.s, r.top), r.s.heap[r.top].parent, r.top,
                      removedChildWasOnLeft)))

rebalanceAfterDeletion(s, node, removedChildWasOnLeft) ==
    deletionWalk(s, node, Nil, removedChildWasOnLeft)

\* deleteLeaf without the test node === this._root
deleteLeafAlwaysDisconnects(s, node) ==
    [s |-> disconnectChildNodeFromParent(s, node),
     start |-> s.heap[node].parent,
     onLeft |-> isLeftChild(s.heap, node)]

\* deleteLeaf that takes a node without a parent for the root
deleteLeafByParent(s, node) ==
    [s |-> IF s.heap[node].parent = Nil THEN [s EXCEPT !.root = Nil]
                                        ELSE disconnectChildNodeFromParent(s, node),
     start |-> s.heap[node].parent,
     onLeft |-> isLeftChild(s.heap, node)]

\* The structural cases of deleteNode.  Each yields the tree after the splice,
\* rebalanceStartNode and removedNodeWasOnLeft.
deleteLeaf(s, node) ==
    [s |-> IF node = s.root THEN [s EXCEPT !.root = Nil]
                            ELSE disconnectChildNodeFromParent(s, node),
     start |-> s.heap[node].parent,
     onLeft |-> isLeftChild(s.heap, node)]

\* The step <<"substitute", node, substitute, promoted, substitute's parent>>
Substituting(s, node, substitute, promoted) ==
    Logged(s, <<"substitute", node, substitute, promoted, s.heap[substitute].parent>>)

\* substituteAfterPromotion with the promoted child itself as the node the
\* rebalance starts at
substituteStartsAtPromoted(s, node, substitute, promoted) ==
    With(replaceNode(IF Ok(s) /\ s.heap[promoted].parent = Nil
                     THEN Throw(s, ErrChildNoParent) ELSE s,
                     node, substitute), LAMBDA s1 :
    [s |-> replaceRoot(s1, node, substitute),
     start |-> promoted,
     onLeft |-> isLeftChild(s1.heap, promoted)])

\* The two-children case once the promoted child has taken the substitute's
\* place: splice the substitute into node's place and find the child's parent.
substituteAfterPromotion(s, node, substitute, promoted) ==
    With(replaceNode(IF Ok(s) /\ s.heap[promoted].parent = Nil
                     THEN Throw(s, ErrChildNoParent) ELSE s,
                     node, substitute), LAMBDA s1 :
    LET pp == s1.heap[promoted].parent IN
    [s |-> replaceRoot(IF Ok(s1) /\ pp = Nil THEN Throw(s1, ErrTypeError) ELSE s1,
                       node, substitute),
     start |-> pp,
     onLeft |-> pp # Nil /\ s1.heap[pp].left = promoted])

\* Fault: the two-children case done by copying the predecessor's key and
\* value into the node and unlinking the predecessor's node instead.
deleteWithPredecessorByCopy(s, node) ==
    LET predecessor == rightmost(s.heap, s.heap[node].left)
        predecessorLeft == s.heap[predecessor].left
        pp == s.heap[predecessor].parent
    IN  With([s EXCEPT !.heap[node].key = s.heap[predecessor].key,
                       !.heap[node].value = s.heap[predecessor].value], LAMBDA s1 :
        [s |-> IF predecessorLeft # Nil
               THEN replaceChild(s1, predecessor, predecessorLeft)
               ELSE disconnectChildNodeFromParent(s1, predecessor),
         start |-> pp,
         onLeft |-> s.heap[pp].left = predecessor])

deleteWithPredecessor(s, node) ==
    LET predecessor == rightmost(s.heap, s.heap[node].left)
        predecessorLeft == s.heap[predecessor].left
        direct == s.heap[predecessor].parent = node
    IN  With(Substituting(s, node, predecessor, predecessorLeft), LAMBDA s0 :
        IF predecessorLeft # Nil
        THEN substituteAfterPromotion(replaceChild(s0, predecessor, predecessorLeft),
                                      node, predecessor, predecessorLeft)
        ELSE [s |-> replaceRoot(replaceNode(s0, node, predecessor), node, predecessor),
              start |-> IF direct THEN predecessor ELSE s.heap[predecessor].parent,
              onLeft |-> IF direct THEN s.heap[node].left = predecessor ELSE FALSE])

deleteWithSuccessor(s, node) ==
    LET successor == leftmost(s.heap, s.heap[node].right)
        successorRight == s.heap[successor].right
        direct == s.heap[successor].parent = node
    IN  With(Substituting(s, node, successor, successorRight), LAMBDA s0 :
        IF successorRight # Nil
        THEN substituteAfterPromotion(replaceChild(s0, successor, successorRight),
                                      node, successor, successorRight)
        ELSE [s |-> replaceRoot(replaceNode(s0, node, successor), node, successor),
              start |-> IF direct THEN successor ELSE s.heap[successor].parent,
              onLeft |-> TRUE])

\* Fault: a node with one child removed as if it were a leaf.
deleteOneChildAsLeaf(s, node, child) == deleteLeaf(s, node)

deleteOneChild(s, node, child) ==
    With(replaceChild(s, node, child), LAMBDA s1 :
    [s |-> replaceRoot(s1, node, child),
     start |-> s1.heap[child].parent,
     onLeft |-> isLeftChild(s.heap, node)])

\* deleteNode that takes the predecessor whatever the balance factor
deleteNodeAlwaysPredecessor(s, node) ==
    LET l == s.heap[node].left
        r == s.heap[node].right
    IN  With(IF l = Nil /\ r = Nil THEN deleteLeaf(s, node)
             ELSE IF l # Nil /\ r # Nil THEN deleteWithPredecessor(s, node)
             ELSE IF l # Nil THEN deleteOneChild(s, node, l)
             ELSE deleteOneChild(s, node, r), LAMBDA d :
        IF ~Ok(d.s) THEN d.s
        ELSE IF d.start # Nil
             THEN Void(rebalanceAfterDeletion([d.s EXCEPT !.size = @ - 1], d.start, d.onLeft))
             ELSE [d.s EXCEPT !.size = @ - 1])

\* deleteNode's branch selection with the successor for every node with two
\* children
unlinkNodeAlwaysSuccessor(s, node) ==
    LET l == s.heap[node].left
        r == s.heap[node].right
    IN  IF l = Nil /\ r = Nil THEN deleteLeaf(s, node)
        ELSE IF l # Nil /\ r # Nil THEN deleteWithSuccessor(s, node)
        ELSE IF l # Nil THEN deleteOneChild(s, node, l)
        ELSE deleteOneChild(s, node, r)

\* deleteNode up to this._size -= 1: the node is taken out of the graph;
\* [s, start: rebalanceStartNode, onLeft: removedNodeWasOnLeft]
unlinkNode(s, node) ==
    LET l == s.heap[node].left
        r == s.heap[node].right
    IN  IF l = Nil /\ r = Nil THEN deleteLeaf(s, node)
        ELSE IF l # Nil /\ r # Nil
             THEN IF s.heap[node].balanceFactor <= 0
                  THEN deleteWithPredecessor(s, node)
                  ELSE deleteWithSuccessor(s, node)
        ELSE IF l # Nil THEN deleteOneChild(s, node, l)
        ELSE deleteOneChild(s, node, r)

deleteNode(s, node) ==
    With(unlinkNode(s, node), LAMBDA d :
        IF ~Ok(d.s) THEN d.s
        ELSE IF d.start # Nil
             THEN Void(rebalanceAfterDeletion([d.s EXCEPT !.size = @ - 1], d.start, d.onLeft))
             ELSE [d.s EXCEPT !.size = @ - 1])

\* Fault: delete that reports success whether or not the key was found.
deleteReportsTrue(s, key) ==
    With(getNode(s, key), LAMBDA node :
    IF node = Nil THEN [s |-> s, found |-> TRUE]
    ELSE [s |-> deleteNode(s, node), found |-> TRUE])

\* delete(key); found is the boolean the call returns
delete(s, key) ==
    With(getNode(s, key), LAMBDA node :
    IF node = Nil THEN [s |-> s, found |-> FALSE]
    ELSE [s |-> deleteNode(s, node), found |-> TRUE])

\* ---- avl-tree: ordered access ----

\* The number of nodes getNode compares the key against.
RECURSIVE getNodeComparisons(_, _, _)
getNodeComparisons(h, current, key) ==
    IF current = Nil THEN 0
    ELSE With(compareFunction(key, h[current].key), LAMBDA cmp :
         IF cmp < 0 THEN 1 + getNodeComparisons(h, h[current].left, key)
         ELSE IF cmp > 0 THEN 1 + getNodeComparisons(h, h[current].right, key)
         ELSE 1)

RECURSIVE minNodeFrom(_, _)
minNodeFrom(h, current) ==
    IF h[current].left # Nil THEN minNodeFrom(h, h[current].left) ELSE current

minNode(s) == IF s.root = Nil THEN Nil ELSE minNodeFrom(s.heap, s.root)

\* minNode()?.key and minNode()?.value
minKey(s) == With(minNode(s), LAMBDA n : IF n = Nil THEN Nil ELSE s.heap[n].key)
minValue(s) == With(minNode(s), LAMBDA n : IF n = Nil THEN Nil ELSE s.heap[n].value)

RECURSIVE maxNodeFrom(_, _)
maxNodeFrom(h, current) ==
    IF h[current].right # Nil THEN maxNodeFrom(h, h[current].right) ELSE current

\* Fault: maxNode written as a copy of minNode.
maxNodeGoesLeft(s) == IF s.root = Nil THEN Nil ELSE minNodeFrom(s.heap, s.root)

maxNode(s) == IF s.root = Nil THEN Nil ELSE maxNodeFrom(s.heap, s.root)

maxKey(s) == With(maxNode(s), LAMBDA n : IF n = Nil THEN Nil ELSE s.heap[n].key)
maxValue(s) == With(maxNode(s), LAMBDA n : IF n = Nil THEN Nil ELSE s.heap[n].value)

\* Travel up until the current node is no longer the left child of its parent
RECURSIVE climbFromLeft(_, _, _)
climbFromLeft(h, child, parent) ==
    IF parent # Nil /\ h[parent].left = child
    THEN climbFromLeft(h, parent, h[parent].parent)
    ELSE parent

predecessor(h, node) ==
    IF h[node].left # Nil THEN maxNodeFrom(h, h[node].left)
    ELSE climbFromLeft(h, node, h[node].parent)

\* Fault: an upward walk that stops at the first parent.
climbFromRightOnce(h, child, parent) == parent

\* Travel up until the current node is no longer the right child of its parent
RECURSIVE climbFromRight(_, _, _)
climbFromRight(h, child, parent) ==
    IF parent # Nil /\ h[parent].right = child
    THEN climbFromRight(h, parent, h[parent].parent)
    ELSE parent

successor(h, node) ==
    IF h[node].right # Nil THEN minNodeFrom(h, h[node].right)
    ELSE climbFromRight(h, node, h[node].parent)

\* The generator object of [Symbol.iterator]: its stack, its current node and
\* where it is suspended ("start", "yielded" or "done"); pushed counts the
\* nodes it has visited (stack.push).
Generator(rt) == [stack |-> <<>>, current |-> rt, at |-> "start", pushed |-> 0]

\* The generator's loop up to its next yield or its end:
\* [g: the generator then, value: the entry yielded, done]
RECURSIVE resume(_, _)
resume(h, g) ==
    IF g.current # Nil
    THEN resume(h, [g EXCEPT !.stack = Append(@, g.current),
                             !.current = h[g.current].left,
                             !.pushed = @ + 1])
    ELSE IF Len(g.stack) > 0
    THEN With(g.stack[Len(g.stack)], LAMBDA top :
         [g |-> [g EXCEPT !.stack = SubSeq(@, 1, Len(@) - 1),
                          !.current = top, !.at = "yielded"],
          value |-> <<h[top].key, h[top].value>>,
          done |-> FALSE])
    ELSE [g |-> [g EXCEPT !.at = "done"], value |-> <<>>, done |-> TRUE]

\* Fault: a generator that does not go on into the right subtree.
nextForgetsRight(h, g) ==
    IF g.at = "done" THEN [g |-> g, value |-> <<>>, done |-> TRUE]
    ELSE IF g.at = "yielded" THEN resume(h, [g EXCEPT !.current = Nil])
    ELSE resume(h, g)

\* generator.next(): after a yield the loop goes on with current = current.right
next(h, g) ==
    IF g.at = "done" THEN [g |-> g, value |-> <<>>, done |-> TRUE]
    ELSE IF g.at = "yielded" THEN resume(h, [g EXCEPT !.current = h[g.current].right])
    ELSE resume(h, g)

\* for (const entry of generator) out.push(entry)
RECURSIVE forOf(_, _, _)
forOf(h, g, out) ==
    With(next(h, g), LAMBDA r :
    IF r.done THEN out ELSE forOf(h, r.g, Append(out, r.value)))

\* Array.from(tree): the entries [key, value] the iterator yields
iterator(s) == forOf(s.heap, Generator(s.root), <<>>)

entryList(s) == With(iterator(s), LAMBDA es : [i \in 1..Len(es) |-> <<es[i][1], es[i][2]>>])
keyList(s) == With(iterator(s), LAMBDA es : [i \in 1..Len(es) |-> es[i][1]])
valueList(s) == With(iterator(s), LAMBDA es : [i \in 1..Len(es) |-> es[i][2]])

\* Fault: walk that counts the entries from one.
RECURSIVE walkCountsFromOne(_, _, _, _)
walkCountsFromOne(h, g, i, index) ==
    With(next(h, g), LAMBDA r :
    IF r.done THEN [selected |-> <<>>, visited |-> r.g.pushed]
    ELSE IF index = i + 1 THEN [selected |-> r.value, visited |-> r.g.pushed]
    ELSE walkCountsFromOne(h, r.g, i + 1, index))

\* Fault: walk without the break: the traversal is run to its end.
RECURSIVE walkToTheEnd(_, _, _, _)
walkToTheEnd(h, g, i, index) ==
    With(next(h, g), LAMBDA r :
    IF r.done THEN [selected |-> <<>>, visited |-> r.g.pushed]
    ELSE IF index = i
         THEN [selected |-> r.value,
               visited |-> r.g.pushed + Len(forOf(h, r.g, <<>>)) - Len(r.g.stack)]
    ELSE walkToTheEnd(h, r.g, i + 1, index))

\* walk with the callback of at: select the entry at index and stop.
\* [selected: the entry or <<>>, visited: the nodes the iterator visited]
RECURSIVE walk(_, _, _, _)
walk(h, g, i, index) ==
    With(next(h, g), LAMBDA r :
    IF r.done THEN [selected |-> <<>>, visited |-> r.g.pushed]
    ELSE IF index = i THEN [selected |-> r.value, visited |-> r.g.pushed]
    ELSE walk(h, r.g, i + 1, index))

\* Fault: at that lets index = size through.
atUpToSize(s, index) ==
    IF index < 0 \/ index > s.size
    THEN [s |-> Throw(s, ErrIndexOutOfBounds), selected |-> <<>>, visited |-> 0]
    ELSE With(walk(s.heap, Generator(s.root), 0, index), LAMBDA w :
         [s |-> s, selected |-> w.selected, visited |-> w.visited])

\* at(index): [s: the tree then, selected, visited]
at(s, index) ==
    IF index < 0 \/ index >= s.size
    THEN [s |-> Throw(s, ErrIndexOutOfBounds), selected |-> <<>>, visited |-> 0]
    ELSE With(walk(s.heap, Generator(s.root), 0, index), LAMBDA w :
         [s |-> s, selected |-> w.selected, visited |-> w.visited])

\* ---- the state machine ----

\* An identity under which no node object exists carries key Nil.
Unallocated == AvlTreeNode(Nil, Nil, Nil)
Created(n) == heap[n].key # Nil

\* Node objects are created by insert only; the object created for key k gets
\* the first identity of IdsOf(k) under which no object exists.
IdsOf(k) == {k, k + MaxKey}
FreshNode(k) == CHOOSE n \in IdsOf(k) : ~Created(n) /\ \A m \in IdsOf(k) : ~Created(m) => n <= m

\* The tree as the operators above take it.
Tree == [heap |-> heap, root |-> root, size |-> size, err |-> NoError, ret |-> Nil, rot |-> 0,
         log |-> <<>>]

\* The nodes found by following left/right links from n, at most d levels deep.
RECURSIVE nodesWithin(_, _, _)
nodesWithin(h, n, d) ==
    IF n = Nil \/ d = 0 THEN {}
    ELSE {n} \cup nodesWithin(h, h[n].left, d - 1) \cup nodesWithin(h, h[n].right, d - 1)

nodesOf(h, n) == nodesWithin(h, n, MaxKey + 1)

Reachable == nodesOf(heap, root)

\* Garbage collection: a node object that is not among the live ones ceases
\* to exist.
reclaim(h, live) == [n \in NodeIds |-> IF n \in live THEN h[n] ELSE Unallocated]

\* Which branch of deleteNode a node takes (avl-tree.ts, deleteNode).
caseOf(h, n) ==
    IF n = Nil THEN "absent"
    ELSE IF h[n].left = Nil /\ h[n].right = Nil THEN "leaf"
    ELSE IF h[n].left # Nil /\ h[n].right # Nil
         THEN IF h[n].balanceFactor <= 0 THEN "predecessor" ELSE "successor"
    ELSE IF h[n].left # Nil THEN "left" ELSE "right"

\* The record of a call: op(key, value) or deleteNode(arg), the node or the
\* boolean it returned, the Error it threw, the rotations it performed, and
\* for a deletion the branch taken and whether the node was the root.
\* A query also records the entry or the list of entries it returned and the
\* number of nodes it visited; a mutating call records the steps it took, and
\* a call of a function of avl-tree-utils its second argument (other); a
\* rotation called directly records the balance factors it found and
\* replaceChild and replaceNode the links of their arguments (before).
NoCall == [op |-> "new", key |-> Nil, value |-> Nil, arg |-> Nil,
           node |-> Nil, found |-> FALSE, err |-> NoError, rot |-> 0,
           kase |-> "none", atRoot |-> FALSE,
           entry |-> <<>>, list |-> <<>>, visited |-> 0, log |-> <<>>,
           other |-> Nil, before |-> <<>>]

\* The call completes with the tree s; the caller keeps no reference to a
\* removed node.
Completes(s, call) ==
    /\ heap' = reclaim(s.heap, nodesOf(s.heap, s.root))
    /\ root' = s.root
    /\ size' = s.size
    /\ last' = [call EXCEPT !.node = s.ret, !.err = s.err, !.rot = s.rot, !.log = s.log]
    /\ UNCHANGED iterators

\* A call outside any scenario.
Returns(s, call) == Completes(s, call) /\ UNCHANGED <<calls, running>>

\* No call is in progress.  Otherwise: the call (op, key, value, node), the
\* loop it is in (phase), the loop's variables (current, parent, child, cmp,
\* removedChildWasOnLeft, the generator and what it has yielded) and the
\* rotations and steps of the call so far.
NotRunning == [op |-> "idle", phase |-> "none", key |-> Nil, value |-> Nil, node |-> Nil,
               current |-> Nil, parent |-> Nil, child |-> Nil, cmp |-> 0, onLeft |-> FALSE,
               g |-> Generator(Nil), out |-> <<>>, rot |-> 0, log |-> <<>>]

Init ==
    /\ heap = [n \in NodeIds |-> Unallocated]
    /\ root = Nil
    /\ size = 0
    /\ last = NoCall
    /\ contents = [k \in Keys |-> Nil]
    /\ calls = <<>>
    /\ iterators = <<>>
    /\ running = NotRunning

Insert(k, v) ==
    /\ Returns(insert(Tree, k, v, IF has(Tree, k) THEN Nil ELSE FreshNode(k)),
               [NoCall EXCEPT !.op = "insert", !.key = k, !.value = v])
    /\ contents' = IF contents[k] = Nil THEN [contents EXCEPT ![k] = v] ELSE contents

Set(k, v) ==
    /\ Returns(set(Tree, k, v, IF has(Tree, k) THEN Nil ELSE FreshNode(k)),
               [NoCall EXCEPT !.op = "set", !.key = k, !.value = v])
    /\ contents' = IF contents[k] = Nil THEN [contents EXCEPT ![k] = v] ELSE contents

Deleted(d, k, n) ==
    Returns(d.s, [NoCall EXCEPT !.op = "delete", !.key = k, !.found = d.found,
                                !.kase = caseOf(heap, n), !.atRoot = (n # Nil /\ n = root)])

Delete(k) ==
    /\ Deleted(delete(Tree, k), k, getNode(Tree, k))
    /\ contents' = [contents EXCEPT ![k] = Nil]

\* deleteNode on a node that is in the tree
DeleteNode(n) ==
    /\ n \in Reachable
    /\ Returns(deleteNode(Tree, n),
               [NoCall EXCEPT !.op = "deleteNode", !.key = heap[n].key, !.arg = n,
                              !.kase = caseOf(heap, n), !.atRoot = (n = root)])
    /\ contents' = [contents EXCEPT ![heap[n].key] = Nil]

Clear ==
    /\ Returns(clear(Tree), [NoCall EXCEPT !.op = "clear", !.before = <<size>>])
    /\ contents' = [k \in Keys |-> Nil]

\* One call of the public interface with a key of K and a value of V.
Call(K, V) ==
    \/ \E k \in K, v \in V : Insert(k, v)
    \/ \E k \in K, v \in V : Set(k, v)
    \/ \E k \in K : Delete(k)
    \/ \E n \in NodeIds : DeleteNode(n)
    \/ Clear

\* The read-only calls.
GetNode(k) ==
    /\ Returns([Tree EXCEPT !.ret = getNode(Tree, k)],
               [NoCall EXCEPT !.op = "getNode", !.key = k,
                              !.visited = getNodeComparisons(heap, root, k)])
    /\ UNCHANGED contents

At(index) ==
    /\ \E r \in {at(Tree, index)} : (
            Returns(r.s, [NoCall EXCEPT !.op = "at", !.arg = index,
                                        !.entry = r.selected, !.visited = r.visited]))
    /\ UNCHANGED contents

EntryList ==
    /\ Returns(Tree, [NoCall EXCEPT !.op = "entryList", !.list = entryList(Tree)])
    /\ UNCHANGED contents

MinNode ==
    /\ Returns([Tree EXCEPT !.ret = minNode(Tree)], [NoCall EXCEPT !.op = "minNode"])
    /\ UNCHANGED contents

MaxNode ==
    /\ Returns([Tree EXCEPT !.ret = maxNode(Tree)], [NoCall EXCEPT !.op = "maxNode"])
    /\ UNCHANGED contents

\* predecessor and successor of a node that is in the tree
Predecessor(n) ==
    /\ n \in Reachable
    /\ Returns([Tree EXCEPT !.ret = predecessor(heap, n)],
               [NoCall EXCEPT !.op = "predecessor", !.arg = n, !.key = heap[n].key])
    /\ UNCHANGED contents

Successor(n) ==
    /\ n \in Reachable
    /\ Returns([Tree EXCEPT !.ret = successor(heap, n)],
               [NoCall EXCEPT !.op = "successor", !.arg = n, !.key = heap[n].key])
    /\ UNCHANGED contents

\* The indices at is called with: all valid ones and some on either side.
Indices == (0 - 2)..(MaxKey + 1)

\* One read-only call with a key of K.
Query(K) ==
    \/ \E k \in K : GetNode(k)
    \/ \E index \in Indices : At(index)
    \/ EntryList
    \/ MinNode
    \/ MaxNode
    \/ \E n \in NodeIds : Predecessor(n)
    \/ \E n \in NodeIds : Successor(n)

\* Spec: every key, one value (the code never reads a value): the shapes of
\* all trees of up to MaxKey nodes.
Next == Call(Keys, {1})

Spec == Init /\ [][Next]_vars

\* SpecMap: fewer keys, every value: the tree as a key-value map.
NextMap == Call(MapKeys, Values)

SpecMap == Init /\ [][NextMap]_vars

\* SpecQuery: Spec with the read-only calls.
NextQuery == Call(Keys, {1}) \/ Query(Keys)

SpecQuery == Init /\ [][NextQuery]_vars

\* SpecQueryMap: SpecMap with the read-only calls.
NextQueryMap == Call(MapKeys, Values) \/ Query(MapKeys)

SpecQueryMap == Init /\ [][NextQueryMap]_vars

\* ---- scenarios ----
\* A scenario makes calls with the keys and values of a list and records them
\* in calls; the node created for the i-th key of the list gets identity i, and
\* contents is kept under i.
ScenarioInsert(keys, values, i) ==
    /\ Len(calls) < MaxCalls
    /\ Completes(insert(Tree, keys[i], values[i], IF has(Tree, keys[i]) THEN Nil ELSE i),
                 [NoCall EXCEPT !.op = "insert", !.key = keys[i], !.value = values[i]])
    /\ contents' = IF has(Tree, keys[i]) THEN contents ELSE [contents EXCEPT ![i] = values[i]]
    /\ calls' = Append(calls, <<"insert", keys[i]>>)
    /\ UNCHANGED running

ScenarioSet(keys, values, i) ==
    /\ Len(calls) < MaxCalls
    /\ Completes(set(Tree, keys[i], values[i], IF has(Tree, keys[i]) THEN Nil ELSE i),
                 [NoCall EXCEPT !.op = "set", !.key = keys[i], !.value = values[i]])
    /\ contents' = IF has(Tree, keys[i]) THEN contents ELSE [contents EXCEPT ![i] = values[i]]
    /\ calls' = Append(calls, <<"set", keys[i]>>)
    /\ UNCHANGED running

ScenarioDelete(keys, i) ==
    /\ Len(calls) < MaxCalls
    /\ \E d \in {delete(Tree, keys[i])} : (
            Completes(d.s, [NoCall EXCEPT !.op = "delete", !.key = keys[i], !.found = d.found,
                                          !.kase = caseOf(heap, getNode(Tree, keys[i])),
                                          !.atRoot = (root # Nil /\ getNode(Tree, keys[i]) = root)]))
    /\ contents' = [contents EXCEPT ![i] = Nil]
    /\ calls' = Append(calls, <<"delete", keys[i]>>)
    /\ UNCHANGED running

ScenarioValueList ==
    /\ Len(calls) < MaxCalls
    /\ Completes(Tree, [NoCall EXCEPT !.op = "valueList", !.list = valueList(Tree)])
    /\ UNCHANGED contents
    /\ calls' = Append(calls, <<"valueList", Nil>>)
    /\ UNCHANGED running

\* The keys of the test 'performs right rotation if necessary', each inserted
\* with itself as value.
RotationKeys == <<100, 50, 150, 25, 75, 12>>

\* SpecRotationTest: inserts of the test's keys, in any order.
NextRotationTest ==
    \E i \in 1..Len(RotationKeys) : ScenarioInsert(RotationKeys, RotationKeys, i)

SpecRotationTest == Init /\ [][NextRotationTest]_vars

\* The entries of the README's usage example.
ReadmeKeys == <<100, 200, 0>>
ReadmeValues == <<"Bob", "Carol", "Alice">>

\* SpecReadme: set and delete with the README's entries and valueList, in any
\* order.
NextReadme ==
    \/ \E i \in 1..Len(ReadmeKeys) : ScenarioSet(ReadmeKeys, ReadmeValues, i)
    \/ \E i \in 1..Len(ReadmeKeys) : ScenarioDelete(ReadmeKeys, i)
    \/ ScenarioValueList

SpecReadme == Init /\ [][NextReadme]_vars

\* The keys of the AVL tree of height 5 with the fewest nodes, level by level:
\*                    8
\*            5               11
\*        3       7       10      12
\*      2   4   6        9
\*    1
\* Inserted in this order no insert rotates.
DeepKeys == <<8, 5, 11, 3, 7, 10, 12, 2, 4, 6, 9, 1>>

\* insert(key, key) of the next key of DeepKeys
DeepInsert ==
    /\ Len(calls) < Len(DeepKeys)
    /\ \E i \in {Len(calls) + 1} : (
            /\ Completes(insert(Tree, DeepKeys[i], DeepKeys[i], i),
                         [NoCall EXCEPT !.op = "insert", !.key = DeepKeys[i],
                                        !.value = DeepKeys[i]])
            /\ calls' = Append(calls, <<"insert", DeepKeys[i]>>))
    /\ UNCHANGED <<contents, running>>

\* delete(key) of any key of DeepKeys once the tree is built
DeepDelete(i) ==
    /\ Len(calls) >= Len(DeepKeys)
    /\ Len(calls) < Len(DeepKeys) + MaxDeepDeletes
    /\ \E d \in {delete(Tree, DeepKeys[i])} : (
            Completes(d.s, [NoCall EXCEPT !.op = "delete", !.key = DeepKeys[i],
                                          !.found = d.found,
                                          !.kase = caseOf(heap, getNode(Tree, DeepKeys[i])),
                                          !.atRoot = (root # Nil /\ getNode(Tree, DeepKeys[i]) = root)]))
    /\ calls' = Append(calls, <<"delete", DeepKeys[i]>>)
    /\ UNCHANGED <<contents, running>>

\* SpecDeep: the tree of DeepKeys is built, then keys are deleted in any
\* order.  The abstract map (contents) is not kept here.
NextDeep ==
    \/ DeepInsert
    \/ \E i \in 1..Len(DeepKeys) : DeepDelete(i)

SpecDeep == Init /\ [][NextDeep]_vars

\* ---- avl-tree-utils called directly ----
\* The functions of avl-tree-utils take nodes, not a tree: a call changes the
\* node graph and nothing else, so the tree's root reference and size stay as
\* they are and no node object is reclaimed.
Applies(s, call) ==
    /\ Len(calls) < MaxUtilCalls
    /\ heap' = s.heap
    /\ last' = [call EXCEPT !.node = s.ret, !.err = s.err, !.rot = s.rot, !.log = s.log]
    /\ calls' = Append(calls, <<call.op, call.arg>>)
    /\ UNCHANGED <<root, size, contents, iterators, running>>

\* <<root.balanceFactor, child.balanceFactor>>, the latter 0 without child
factorsAt(x, child) ==
    <<heap[x].balanceFactor, IF child = Nil THEN 0 ELSE heap[child].balanceFactor>>

RotateLeft(x) ==
    /\ Created(x)
    /\ Applies(rotateLeft(Tree, x),
               [NoCall EXCEPT !.op = "rotateLeft", !.arg = x,
                              !.before = factorsAt(x, heap[x].right)])

RotateRight(x) ==
    /\ Created(x)
    /\ Applies(rotateRight(Tree, x),
               [NoCall EXCEPT !.op = "rotateRight", !.arg = x,
                              !.before = factorsAt(x, heap[x].left)])

\* The nodes on the way from n up to the top of its graph, n included
RECURSIVE upFrom(_, _)
upFrom(h, n) == IF n = Nil THEN {} ELSE {n} \cup upFrom(h, h[n].parent)

\* replaceChild with any two nodes, newChild not on the way up from oldChild
ReplaceChild(oldChild, newChild) ==
    /\ Created(oldChild)
    /\ Created(newChild)
    /\ newChild \notin upFrom(heap, oldChild)
    /\ Applies(replaceChild(Tree, oldChild, newChild),
               [NoCall EXCEPT !.op = "replaceChild", !.arg = oldChild, !.other = newChild,
                              !.before = <<heap[oldChild].parent, heap[newChild].parent>>])

\* replaceNode with any two nodes, replacement not on the way up from node;
\* before is <<node.parent, replacement.parent, node.left, node.right,
\* replacement.left, replacement.right>>
ReplaceNode(node, replacement) ==
    /\ Created(node)
    /\ Created(replacement)
    /\ replacement \notin upFrom(heap, node)
    /\ Applies(replaceNode(Tree, node, replacement),
               [NoCall EXCEPT !.op = "replaceNode", !.arg = node, !.other = replacement,
                              !.before = <<heap[node].parent, heap[replacement].parent,
                                           heap[node].left, heap[node].right,
                                           heap[replacement].left,
                                           heap[replacement].right>>])

\* SpecUtils: a tree is built by calls of the tree's interface, then functions
\* of avl-tree-utils are called on its nodes.
NextUtils ==
    \/ calls = <<>> /\ Call(MapKeys, {1})
    \/ \E x \in NodeIds : RotateLeft(x)
    \/ \E x \in NodeIds : RotateRight(x)
    \/ \E oldChild, newChild \in NodeIds : ReplaceChild(oldChild, newChild)
    \/ \E node, replacement \in NodeIds : ReplaceNode(node, replacement)

SpecUtils == Init /\ [][NextUtils]_vars

\* ---- calls followed one loop iteration at a time ----
\* The tree as the call in progress sees it, with the call's rotations and
\* steps so far.
Working == [Tree EXCEPT !.rot = running.rot, !.log = running.log]

\* A call begins: its loop variables are initialised, nothing is written.
Begins(r) ==
    /\ running.op = "idle"
    /\ Len(calls) >= Len(DeepKeys)
    /\ Len(calls) < Len(DeepKeys) + MaxStepCalls
    /\ running' = r
    /\ UNCHANGED <<heap, root, size, last, contents, calls, iterators>>

\* One iteration of the call's loop is done and the loop goes on: what it
\* wrote is written in place.
Continues(s, r) ==
    \E t \in {s} :
        /\ heap' = t.heap
        /\ root' = t.root
        /\ size' = t.size
        /\ running' = [r EXCEPT !.rot = t.rot, !.log = t.log]
        /\ UNCHANGED <<last, contents, calls, iterators>>

\* The call returns.
Finishes(s, call) ==
    \E t \in {s} :
        /\ Completes(t, call)
        /\ running' = NotRunning
        /\ calls' = Append(calls, <<call.op, call.key>>)
        /\ UNCHANGED contents

\* getNode(key): let current = this._root
BeginGetNode(k) ==
    Begins([NotRunning EXCEPT !.op = "getNode", !.phase = "descend", !.key = k,
                              !.current = root])

\* getNode whose loop does not move to the left child.
StepGetNodeStaysLeft ==
    /\ running.op = "getNode"
    /\ LET current == running.current
           call == [NoCall EXCEPT !.op = "getNode", !.key = running.key]
       IN  IF current = Nil
           THEN Finishes(Working, call)
           ELSE \E cmp \in {compareFunction(running.key, heap[current].key)} : (
                IF cmp < 0
                THEN Continues(Working, running)
                ELSE IF cmp > 0
                THEN Continues(Working, [running EXCEPT !.current = heap[current].right])
                ELSE Finishes([Working EXCEPT !.ret = current], call))

\* getNode: one iteration of while (current), or the return after it
StepGetNode ==
    /\ running.op = "getNode"
    /\ LET current == running.current
           call == [NoCall EXCEPT !.op = "getNode", !.key = running.key]
       IN  IF current = Nil
           THEN Finishes(Working, call)
           ELSE \E cmp \in {compareFunction(running.key, heap[current].key)} : (
                IF cmp < 0
                THEN Continues(Working, [running EXCEPT !.current = heap[current].left])
                ELSE IF cmp > 0
                THEN Continues(Working, [running EXCEPT !.current = heap[current].right])
                ELSE Finishes([Working EXCEPT !.ret = current], call))

\* insert(key, value): the shortcut for the empty tree returns at once,
\* otherwise let current = this._root
BeginInsert(i) ==
    IF root = Nil
    THEN /\ running.op = "idle"
         /\ Len(calls) >= Len(DeepKeys)
         /\ Len(calls) < Len(DeepKeys) + MaxStepCalls
         /\ Finishes(insert(Tree, DeepKeys[i], DeepKeys[i], i),
                     [NoCall EXCEPT !.op = "insert", !.key = DeepKeys[i],
                                    !.value = DeepKeys[i]])
    ELSE Begins([NotRunning EXCEPT !.op = "insert", !.phase = "descend",
                                   !.key = DeepKeys[i], !.value = DeepKeys[i],
                                   !.node = i, !.current = root])

\* insert: one iteration of the downward while (current); after the last
\* one the new node is attached and rebalanceAfterInsertion begins
StepInsertDescend ==
    /\ running.op = "insert"
    /\ running.phase = "descend"
    /\ LET current == running.current
           newNode == running.node
           call == [NoCall EXCEPT !.op = "insert", !.key = running.key,
                                  !.value = running.value]
       IN  IF current = Nil
           THEN Continues([Working EXCEPT
                               !.heap[newNode] = AvlTreeNode(running.key, running.value,
                                                             running.parent),
                               !.heap[running.parent] =
                                   IF running.cmp < 0 THEN [@ EXCEPT !.left = newNode]
                                                      ELSE [@ EXCEPT !.right = newNode],
                               !.size = @ + 1],
                          [running EXCEPT !.phase = "rebalance", !.child = newNode])
           ELSE \E cmp \in {compareFunction(running.key, heap[current].key)} : (
                IF cmp < 0
                THEN Continues(Working, [running EXCEPT !.current = heap[current].left,
                                                        !.parent = current, !.cmp = cmp])
                ELSE IF cmp > 0
                THEN Continues(Working, [running EXCEPT !.current = heap[current].right,
                                                        !.parent = current, !.cmp = cmp])
                ELSE Finishes(Working, call))

\* rebalanceAfterInsertion: one iteration of while (parent), or the return
\* of insert after it
StepInsertRebalance ==
    /\ running.op = "insert"
    /\ running.phase = "rebalance"
    /\ LET parent == running.parent
           child == running.child
           call == [NoCall EXCEPT !.op = "insert", !.key = running.key,
                                  !.value = running.value]
       IN  IF parent = Nil
           THEN Finishes([Working EXCEPT !.ret = running.node], call)
           ELSE \E s1 \in {adjustForInsertion(Working, child, parent)} : (
                IF ~Ok(s1) THEN Finishes(s1, call)
                ELSE IF s1.heap[parent].balanceFactor = 0
                THEN Finishes([s1 EXCEPT !.ret = running.node], call)
                ELSE IF s1.heap[parent].balanceFactor < -1
                THEN Finishes([rotateLeftHeavy(s1, parent).s EXCEPT !.ret = running.node], call)
                ELSE IF s1.heap[parent].balanceFactor > 1
                THEN Finishes([rotateRightHeavy(s1, parent).s EXCEPT !.ret = running.node], call)
                ELSE Continues(s1, [running EXCEPT !.child = parent,
                                                   !.parent = s1.heap[parent].parent]))

\* delete(key): getNode(key) first
BeginDelete(k) ==
    Begins([NotRunning EXCEPT !.op = "delete", !.phase = "descend", !.key = k,
                              !.current = root])

\* delete: one iteration of getNode's loop; return false without a node
StepDeleteDescend ==
    /\ running.op = "delete"
    /\ running.phase = "descend"
    /\ LET current == running.current IN
       IF current = Nil
       THEN Finishes(Working, [NoCall EXCEPT !.op = "delete", !.key = running.key])
       ELSE \E cmp \in {compareFunction(running.key, heap[current].key)} : (
            IF cmp < 0
            THEN Continues(Working, [running EXCEPT !.current = heap[current].left])
            ELSE IF cmp > 0
            THEN Continues(Working, [running EXCEPT !.current = heap[current].right])
            ELSE Continues(Working, [running EXCEPT !.phase = "unlink", !.node = current]))

\* deleteNode up to the call of rebalanceAfterDeletion
StepDeleteUnlink ==
    /\ running.op = "delete"
    /\ running.phase = "unlink"
    /\ \E d \in {unlinkNode(Working, running.node)} : (
            LET call == [NoCall EXCEPT !.op = "delete", !.key = running.key, !.found = TRUE,
                                       !.kase = caseOf(heap, running.node),
                                       !.atRoot = (running.node = root)]
            IN  IF ~Ok(d.s) THEN Finishes(d.s, call)
                ELSE IF d.start = Nil THEN Finishes([d.s EXCEPT !.size = @ - 1], call)
                ELSE Continues([d.s EXCEPT !.size = @ - 1],
                               [running EXCEPT !.phase = "rebalance", !.parent = d.start,
                                               !.child = Nil, !.onLeft = d.onLeft]))

\* rebalanceAfterDeletion: one iteration of while (parent), or the return of
\* delete after it
StepDeleteRebalance ==
    /\ running.op = "delete"
    /\ running.phase = "rebalance"
    /\ LET parent == running.parent
           call == [NoCall EXCEPT !.op = "delete", !.key = running.key, !.found = TRUE]
       IN  IF parent = Nil
           THEN Finishes(Void(Working), call)
           ELSE \E s1 \in {adjustForDeletion(Working, parent, running.child,
                                                running.onLeft)} : (
                IF ~Ok(s1) THEN Finishes(s1, call) ELSE
                \E r \in {IF s1.heap[parent].balanceFactor < -1 THEN rotateLeftHeavy(s1, parent)
                          ELSE IF s1.heap[parent].balanceFactor > 1
                          THEN rotateRightHeavy(s1, parent)
                          ELSE [s |-> s1, top |-> parent]} : (
                IF ~Ok(r.s) THEN Finishes(r.s, call)
                ELSE IF r.s.heap[r.top].balanceFactor = 1 \/ r.s.heap[r.top].balanceFactor = -1
                THEN Finishes(Void(Settled(r.s, r.top)), call)
                ELSE Continues(Settled(r.s, r.top),
                               [running EXCEPT !.child = r.top,
                                               !.parent = r.s.heap[r.top].parent])))

\* predecessor(node) / successor(node) of a node of the tree: down into the
\* subtree when there is one, else up along the parents
BeginNeighbour(op, n) ==
    /\ n \in Reachable
    /\ LET sub == IF op = "predecessor" THEN heap[n].left ELSE heap[n].right IN
       Begins(IF sub # Nil
              THEN [NotRunning EXCEPT !.op = op, !.phase = "down", !.node = n,
                                      !.key = heap[n].key, !.current = sub]
              ELSE [NotRunning EXCEPT !.op = op, !.phase = "climb", !.node = n,
                                      !.key = heap[n].key, !.child = n,
                                      !.parent = heap[n].parent])

\* predecessor / successor: one iteration of while (current.right) (left),
\* or the return after it
StepNeighbourDown ==
    /\ running.op \in {"predecessor", "successor"}
    /\ running.phase = "down"
    /\ LET current == running.current
           further == IF running.op = "predecessor" THEN heap[current].right
                                                    ELSE heap[current].left
       IN  IF further # Nil
           THEN Continues(Working, [running EXCEPT !.current = further])
           ELSE Finishes([Working EXCEPT !.ret = current],
                         [NoCall EXCEPT !.op = running.op, !.arg = running.node,
                                        !.key = running.key])

\* predecessor / successor: one iteration of while (parent?.left === child)
\* (right), or the return after it
StepNeighbourClimb ==
    /\ running.op \in {"predecessor", "successor"}
    /\ running.phase = "climb"
    /\ LET parent == running.parent
           child == running.child
           sameSide == /\ parent # Nil
                       /\ child = IF running.op = "predecessor" THEN heap[parent].left
                                                                ELSE heap[parent].right
       IN  IF sameSide
           THEN Continues(Working, [running EXCEPT !.child = parent,
                                                   !.parent = heap[parent].parent])
           ELSE Finishes([Working EXCEPT !.ret = parent],
                         [NoCall EXCEPT !.op = running.op, !.arg = running.node,
                                        !.key = running.key])

\* Array.from(tree): the generator's body begins
BeginIteration ==
    Begins([NotRunning EXCEPT !.op = "entryList", !.phase = "loop", !.g = Generator(root)])

\* The generator: one iteration of while (!done), a yield included
StepIteration ==
    /\ running.op = "entryList"
    /\ LET g == running.g IN
       IF g.current # Nil
       THEN Continues(Working, [running EXCEPT !.g.stack = Append(@, g.current),
                                               !.g.current = heap[g.current].left,
                                               !.g.pushed = @ + 1])
       ELSE IF Len(g.stack) > 0
       THEN \E top \in {g.stack[Len(g.stack)]} : (
            Continues(Working, [running EXCEPT !.g.stack = SubSeq(@, 1, Len(@) - 1),
                                               !.g.current = heap[top].right,
                                               !.g.at = "yielded",
                                               !.out = Append(@, <<heap[top].key,
                                                                   heap[top].value>>)]))
       ELSE Finishes(Working, [NoCall EXCEPT !.op = "entryList", !.list = running.out])

Begin ==
    \/ \E i \in 1..Len(DeepKeys) : BeginGetNode(DeepKeys[i])
    \/ \E i \in 1..Len(DeepKeys) : BeginInsert(i)
    \/ \E i \in 1..Len(DeepKeys) : BeginDelete(DeepKeys[i])
    \/ \E n \in NodeIds : BeginNeighbour("predecessor", n)
    \/ \E n \in NodeIds : BeginNeighbour("successor", n)
    \/ BeginIteration

Step ==
    \/ StepGetNode
    \/ StepInsertDescend
    \/ StepInsertRebalance
    \/ StepDeleteDescend
    \/ StepDeleteUnlink
    \/ StepDeleteRebalance
    \/ StepNeighbourDown
    \/ StepNeighbourClimb
    \/ StepIteration

\* SpecSteps: the tree of DeepKeys is built, then calls are made and followed
\* one loop iteration at a time.  The program is single-threaded and
\* synchronous: a call in progress always takes its next step.
NextSteps ==
    \/ DeepInsert
    \/ Begin
    \/ Step

SpecSteps == Init /\ [][NextSteps]_vars /\ WF_vars(Step)

\* ---- generator objects held by the caller ----
\* What tree[Symbol.iterator]() returns: a generator whose body has not
\* started, so that this._root is read by the first next().
Iterator == [g |-> Generator(Nil), out |-> <<>>, returned |-> FALSE]

\* A call on a generator object: the tree is not written.
Iterates(call) ==
    /\ last' = call
    /\ UNCHANGED <<heap, root, size, contents, calls, running>>

\* Fault: a generator object that goes on where the one before it is.
OpenIteratorShared ==
    /\ Len(iterators) < MaxIterators
    /\ iterators' = Append(iterators,
                           IF iterators = <<>> THEN Iterator
                           ELSE [iterators[Len(iterators)] EXCEPT !.out = <<>>])
    /\ Iterates([NoCall EXCEPT !.op = "iterator", !.arg = Len(iterators) + 1])

OpenIterator ==
    /\ Len(iterators) < MaxIterators
    /\ iterators' = Append(iterators, Iterator)
    /\ Iterates([NoCall EXCEPT !.op = "iterator", !.arg = Len(iterators) + 1])

\* generator.next(); found is the done flag of the result
IteratorNext(i) ==
    /\ i \in DOMAIN iterators
    /\ \E r \in {next(heap, IF iterators[i].g.at = "start" THEN Generator(root)
                                                      ELSE iterators[i].g)} : (
            /\ iterators' = [iterators EXCEPT ![i].g = r.g,
                                              ![i].out = IF r.done THEN @ ELSE Append(@, r.value)]
            /\ Iterates([NoCall EXCEPT !.op = "next", !.arg = i, !.entry = r.value,
                                       !.found = r.done]))

\* generator.return(), which the break of a for...of loop (walk, at) calls:
\* the generator is finished whatever it had left
IteratorReturn(i) ==
    /\ i \in DOMAIN iterators
    /\ iterators' = [iterators EXCEPT ![i].g.at = "done", ![i].returned = TRUE]
    /\ Iterates([NoCall EXCEPT !.op = "return", !.arg = i])

\* SpecIterators: a tree is built, then generator objects are obtained from
\* it, advanced in any interleaving and given up at any point; the tree is
\* not called while one is held.
NextIterators ==
    \/ iterators = <<>> /\ Call(1..MaxIterKey, Values)
    \/ OpenIterator
    \/ \E i \in 1..MaxIterators : IteratorNext(i)
    \/ \E i \in 1..MaxIterators : IteratorReturn(i)

SpecIterators == Init /\ [][NextIterators]_vars

\* ---- a caller that keeps the node objects it removed ----
\* SpecStale: the caller takes getNode(k) before delete(k) and keeps the node
\* object, so removed node objects stay alive; it may hand one of them to
\* deleteNode again at any later time.
StaleKeys == 1..MaxStaleKey

\* The node objects the caller kept: calls records <<"delete", node>>.
Held == {calls[i][2] : i \in {j \in 1..Len(calls) : calls[j][1] = "delete"}}

\* The call completes with the tree s; the node objects kept stay alive.
CompletesHolding(s, call, held) ==
    \E t \in {s} :
        /\ Len(calls) < MaxStaleCalls
        /\ heap' = reclaim(t.heap, nodesOf(t.heap, t.root) \cup held)
        /\ root' = t.root
        /\ size' = t.size
        /\ last' = [call EXCEPT !.node = t.ret, !.err = t.err, !.rot = t.rot, !.log = t.log]
        /\ UNCHANGED <<iterators, running>>

StaleInsert(k) ==
    /\ has(Tree, k) \/ \E n \in IdsOf(k) : ~Created(n)
    /\ CompletesHolding(insert(Tree, k, 1, IF has(Tree, k) THEN Nil ELSE FreshNode(k)),
                        [NoCall EXCEPT !.op = "insert", !.key = k, !.value = 1], Held)
    /\ contents' = IF contents[k] = Nil THEN [contents EXCEPT ![k] = 1] ELSE contents
    /\ calls' = Append(calls, <<"insert", k>>)

\* const node = tree.getNode(k); tree.delete(k)
StaleDelete(k) ==
    /\ has(Tree, k)
    /\ \E n \in {getNode(Tree, k)} :
          /\ CompletesHolding(delete(Tree, k).s,
                              [NoCall EXCEPT !.op = "delete", !.key = k, !.found = TRUE,
                                             !.arg = n, !.kase = caseOf(heap, n),
                                             !.atRoot = (n = root)], Held \cup {n})
          /\ calls' = Append(calls, <<"delete", n>>)
    /\ contents' = [contents EXCEPT ![k] = Nil]

\* tree.deleteNode(node) with a node object removed earlier
StaleDeleteNode(n) ==
    /\ n \in Held
    /\ CompletesHolding(deleteNode(Tree, n),
                        [NoCall EXCEPT !.op = "deleteNode", !.key = heap[n].key, !.arg = n,
                                       !.kase = caseOf(heap, n), !.atRoot = (n = root)], Held)
    /\ calls' = Append(calls, <<"deleteNode", n>>)
    /\ UNCHANGED contents

NextStale ==
    \/ \E k \in StaleKeys : StaleInsert(k)
    \/ \E k \in StaleKeys : StaleDelete(k)
    \/ \E n \in NodeIds : StaleDeleteNode(n)

SpecStale == Init /\ [][NextStale]_vars

\* ---- what the tree looks like from outside ----
height(n) == computeHeight(heap, n)

\* height(right subtree) - height(left subtree), from the shape
heightDifference(n) == height(heap[n].right) - height(heap[n].left)

Mutated == last.op \in {"insert", "set", "delete", "deleteNode"}
Removed == last.op \in {"delete", "deleteNode"} /\ last.kase # "absent"

\* C1: in every state reached by insert, set, delete, deleteNode on a node of
\* the tree and clear, the heights of the left and the right subtree of every
\* node reachable from the root differ by at most one.
HeightBalanced ==
    \A n \in Reachable : heightDifference(n) >= -1 /\ heightDifference(n) <= 1

\* A removal from a tree of MaxKey nodes that needed a double rotation.
HeightBalancedWitness ==
    Removed /\ size = MaxKey - 1 /\ last.rot = 2 /\ HeightBalanced

\* C2: after every completed insert, set, delete or deleteNode the stored
\* balanceFactor of every reachable node equals height(right) - height(left)
\* recomputed from the shape, and lies in {-1, 0, +1}.
BalanceFactorsExact ==
    Mutated =>
        \A n \in Reachable :
            /\ heap[n].balanceFactor = heightDifference(n)
            /\ heap[n].balanceFactor \in {-1, 0, 1}

\* A removal that rotated twice and left a right-heavy node.
BalanceFactorsExactWitness ==
    /\ Removed /\ last.rot = 2
    /\ \E n \in Reachable : heap[n].balanceFactor = 1
    /\ BalanceFactorsExact

\* C3: after every completed mutating operation the tree is a binary search
\* tree under the comparison function: every key in a node's left subtree
\* compares less than the node's key, every key in its right subtree compares
\* greater, and no two reachable nodes carry equal keys.
SearchTreeOrder ==
    /\ \A n \in Reachable :
          /\ \A m \in nodesOf(heap, heap[n].left) : compareFunction(heap[m].key, heap[n].key) < 0
          /\ \A m \in nodesOf(heap, heap[n].right) : compareFunction(heap[m].key, heap[n].key) > 0
    /\ \A n, m \in Reachable : n # m => compareFunction(heap[n].key, heap[m].key) # 0

\* A two-children removal by predecessor substitution below the root.
SearchTreeOrderWitness ==
    /\ Removed /\ last.kase = "predecessor" /\ ~last.atRoot /\ size >= 4
    /\ SearchTreeOrder

\* C4: after every completed mutating operation every child of a reachable
\* node names that node as its parent, and the root has no parent.
ParentLinksConsistent ==
    /\ \A n \in Reachable :
          /\ heap[n].left # Nil => heap[heap[n].left].parent = n
          /\ heap[n].right # Nil => heap[heap[n].right].parent = n
    /\ root # Nil => heap[root].parent = Nil

\* A successor substitution at the root followed by a rotation.
ParentLinksConsistentWitness ==
    /\ Removed /\ last.kase = "successor" /\ last.atRoot /\ last.rot > 0
    /\ ParentLinksConsistent

\* C5: after any sequence of insert, set, delete and clear, rejected inserts,
\* failing sets and deletes of absent keys included, the size counter equals
\* the number of nodes reachable from the root.
SizeCountsNodes == size = Cardinality(Reachable)

\* A failed set on a tree of three or more nodes.
SizeCountsNodesWitness ==
    last.op = "set" /\ last.err = ErrKeyExists /\ size >= 3 /\ SizeCountsNodes

\* The tree after the step.
TreeAfter == [heap |-> heap', root |-> root', size |-> size', err |-> NoError,
              ret |-> Nil, rot |-> 0, log |-> <<>>]

StructureUnchanged == heap' = heap /\ root' = root /\ size' = size

\* C6: the tree refines the abstract key-value map: has(k) is true exactly of
\* the keys successfully inserted and not deleted since, get(k) is then the
\* value given at that insert, and get(k) and getNode(k) are absent otherwise.
RefinesMap ==
    \A k \in Keys :
        /\ has(Tree, k) <=> contents[k] # Nil
        /\ get(Tree, k) = contents[k]
        /\ contents[k] = Nil => getNode(Tree, k) = Nil

\* A two-children removal that left keys with different values and an absent key.
RefinesMapWitness ==
    /\ Removed /\ last.kase \in {"predecessor", "successor"}
    /\ \E j, k \in Keys : contents[j] # Nil /\ contents[k] # Nil /\ contents[j] # contents[k]
    /\ RefinesMap

\* C7: insert(k, v) of a key that is present returns absent and changes
\* neither root, size, any link, any balance factor nor the value stored
\* under k, whatever v is.
RejectedInsertChangesNothing ==
    [][(last'.op = "insert" /\ contents[last'.key] # Nil)
        => (last'.node = Nil /\ last'.err = NoError /\ StructureUnchanged)]_vars

\* A rejected insert whose value differs from the stored one.
RejectedInsertWitness ==
    /\ last.op = "insert" /\ last.node = Nil /\ size >= 3
    /\ contents[last.key] # Nil /\ contents[last.key] # last.value
    /\ get(Tree, last.key) = contents[last.key]

\* C8: delete(k) returns false exactly when k is absent, and then root, size,
\* all links and all balance factors are unchanged, on the empty tree too.
DeleteAbsentChangesNothing ==
    [][last'.op = "delete"
        => /\ ~last'.found <=> contents[last'.key] = Nil
           /\ ~last'.found => StructureUnchanged]_vars

\* A delete of an absent key on a tree of three or more nodes.
DeleteAbsentWitness ==
    last.op = "delete" /\ ~last.found /\ last.kase = "absent" /\ size >= 3

\* C9: delete(k) of a present key returns true, decreases size by exactly one,
\* makes k absent and leaves every other key as it was, present with the same
\* value or absent, whichever branch of deleteNode the node takes.
DeleteRemovesOnlyItsKey ==
    [][(last'.op = "delete" /\ contents[last'.key] # Nil)
        => /\ last'.found /\ last'.err = NoError
           /\ size' = size - 1
           /\ ~has(TreeAfter, last'.key)
           /\ \A j \in Keys \ {last'.key} : get(TreeAfter, j) = get(Tree, j)]_vars

\* A two-children removal below the root among keys with different values.
DeleteRemovesWitness ==
    /\ last.op = "delete" /\ last.found /\ ~last.atRoot
    /\ last.kase \in {"predecessor", "successor"}
    /\ \E j, k \in Keys : contents[j] # Nil /\ contents[k] # Nil /\ contents[j] # contents[k]

\* The step removes key k from the tree.
Removes(k) ==
    \/ last'.op \in {"delete", "deleteNode"} /\ last'.key = k
    \/ last'.op = "clear"

\* C10: the node object insert(k, v) returns is the node getNode(k) returns
\* from then on until k itself is deleted, and its key and value never change,
\* whatever rotations and substitutions other inserts and deletes perform.
NodeIdentityStable ==
    [][/\ \A k \in Keys :
            (has(Tree, k) /\ ~Removes(k))
                => /\ getNode(TreeAfter, k) = getNode(Tree, k)
                   /\ heap'[getNode(Tree, k)].key = heap[getNode(Tree, k)].key
                   /\ heap'[getNode(Tree, k)].value = heap[getNode(Tree, k)].value
       /\ (last'.op = "insert" /\ last'.node # Nil)
                => /\ getNode(TreeAfter, last'.key) = last'.node
                   /\ heap'[last'.node].key = last'.key
                   /\ heap'[last'.node].value = last'.value]_vars

\* A predecessor substitution at the root among keys with different values.
NodeIdentityWitness ==
    /\ Removed /\ last.kase = "predecessor" /\ last.atRoot /\ size >= 3
    /\ \E j, k \in Keys : contents[j] # Nil /\ contents[k] # Nil /\ contents[j] # contents[k]
    /\ \A k \in Keys : contents[k] # Nil => heap[getNode(Tree, k)].key = k

\* The step has the effect insert(k, v) has on the tree before it.
EffectOfInsert(k, v) ==
    \E s \in {insert(Tree, k, v, FreshNode(k))} : (
         /\ Ok(s) /\ s.ret # Nil
         /\ heap' = reclaim(s.heap, nodesOf(s.heap, s.root))
         /\ root' = s.root
         /\ size' = s.size)

\* C11: set(k, v) on a key that exists fails with 'Key already exists' and
\* leaves root, size, structure and the stored value unchanged; on a new key
\* it has exactly the effect of insert(k, v) and returns the tree itself.
SetInsertsOrFails ==
    [][last'.op = "set"
        => IF has(Tree, last'.key)
           THEN /\ last'.err = ErrKeyExists
                /\ StructureUnchanged
                /\ get(TreeAfter, last'.key) = get(Tree, last'.key)
           ELSE /\ last'.err = NoError
                /\ last'.node = This
                /\ EffectOfInsert(last'.key, last'.value)
                /\ size' = size + 1
                /\ get(TreeAfter, last'.key) = last'.value]_vars

\* A failed set whose value differs from the stored one.
SetFailsWitness ==
    /\ last.op = "set" /\ last.err = ErrKeyExists /\ size >= 3
    /\ contents[last.key] # Nil /\ contents[last.key] # last.value
    /\ get(Tree, last.key) = contents[last.key]

\* The keys of the abstract map, and those below a key.
Present == {k \in Keys : contents[k] # Nil}
Below(key) == {k \in Present : compareFunction(k, key) < 0}

\* C12: for every index with 0 <= index < size, at(index) returns the entry
\* whose key has exactly index smaller keys in the tree, with the value stored
\* under that key, and does not modify the tree.
AtReturnsRanked ==
    [][(last'.op = "at" /\ last'.arg >= 0 /\ last'.arg < size)
        => /\ last'.err = NoError
           /\ Len(last'.entry) = 2
           /\ last'.entry[1] \in Present
           /\ last'.entry[2] = contents[last'.entry[1]]
           /\ Cardinality(Below(last'.entry[1])) = last'.arg
           /\ StructureUnchanged]_vars

\* at of an index in the middle of a tree of four or more entries, whose
\* values differ.
AtReturnsRankedWitness ==
    /\ last.op = "at" /\ last.err = NoError /\ size >= 4
    /\ last.arg >= 2 /\ last.arg < size - 1
    /\ Len(last.entry) = 2 /\ last.entry[2] = MaxVal
    /\ \E k \in Present : contents[k] # MaxVal

\* C13: at(index) fails with 'Index out of bounds' for every integer index
\* below 0 or at or above size (at(0) on the empty tree and at(size) among
\* them), and the failed call leaves the tree as it was.
AtOutOfBoundsFails ==
    [][(last'.op = "at" /\ (last'.arg < 0 \/ last'.arg >= size))
        => /\ last'.err = ErrIndexOutOfBounds
           /\ last'.entry = <<>>
           /\ StructureUnchanged]_vars

\* at(size) on a tree of three or more entries.
AtOutOfBoundsWitness ==
    last.op = "at" /\ last.err = ErrIndexOutOfBounds /\ last.arg = size /\ size >= 3

\* C14: with no mutation during the traversal, iterating the tree (and
\* keys(), values(), entries()) yields exactly size entries, each present key
\* exactly once with its value, in strictly ascending key order, and then
\* finishes; on an empty tree it yields nothing.
IterationAscending ==
    last.op = "entryList" =>
        /\ Len(last.list) = size
        /\ \A i \in 1..Len(last.list) :
              /\ last.list[i][1] \in Present
              /\ last.list[i][2] = contents[last.list[i][1]]
        /\ \A i, j \in 1..Len(last.list) :
              i < j => compareFunction(last.list[i][1], last.list[j][1]) < 0
        /\ \A k \in Present : \E i \in 1..Len(last.list) : last.list[i][1] = k
        /\ iterator(Tree) = last.list
        /\ keyList(Tree) = [i \in 1..Len(last.list) |-> last.list[i][1]]
        /\ valueList(Tree) = [i \in 1..Len(last.list) |-> last.list[i][2]]
        /\ (size = 0 => last.list = <<>>)

\* The entries of a full tree whose values differ.
IterationAscendingWitness ==
    /\ last.op = "entryList" /\ size = MaxMapKey /\ Len(last.list) = MaxMapKey
    /\ last.list[1][2] # last.list[2][2]
    /\ height(root) = 3

\* The node with the next larger key, and the one with the next smaller key,
\* among the nodes of the tree (Nil if there is none).
Following(a) ==
    LET above == {b \in Reachable : compareFunction(heap[b].key, heap[a].key) > 0}
    IN  IF above = {} THEN Nil
        ELSE CHOOSE b \in above :
                 \A c \in above : compareFunction(heap[b].key, heap[c].key) <= 0
Preceding(b) ==
    LET below == {a \in Reachable : compareFunction(heap[a].key, heap[b].key) < 0}
    IN  IF below = {} THEN Nil
        ELSE CHOOSE a \in below :
                 \A c \in below : compareFunction(heap[a].key, heap[c].key) >= 0

\* C15: in every reachable tree, for every pair a, b of nodes adjacent in the
\* ascending key sequence successor(a) is b and predecessor(b) is a, the same
\* node objects; the minimum has no predecessor and the maximum no successor.
NeighboursLinked ==
    /\ \A a \in Reachable :
          /\ successor(heap, a) = Following(a)
          /\ predecessor(heap, a) = Preceding(a)
    /\ last.op = "successor" => last.node = Following(last.arg)
    /\ last.op = "predecessor" => last.node = Preceding(last.arg)

\* successor of a node without right child that is two or more levels below
\* its successor.
NeighboursLinkedWitness ==
    /\ last.op = "successor" /\ last.node # Nil
    /\ heap[last.arg].right = Nil
    /\ heap[last.arg].parent # last.node
    /\ heap[heap[last.arg].parent].parent = last.node
    /\ last.node = Following(last.arg)

\* The smallest and the largest key of the abstract map (of a non-empty one).
Smallest == CHOOSE k \in Present : \A j \in Present : compareFunction(k, j) <= 0
Largest == CHOOSE k \in Present : \A j \in Present : compareFunction(k, j) >= 0

\* C16: in every reachable non-empty tree minNode, minKey and minValue return
\* the node, key and value of the smallest present key and maxNode, maxKey and
\* maxValue those of the largest; on an empty tree all six return absent.
ExtremesFound ==
    /\ Present = {} =>
          /\ minNode(Tree) = Nil /\ minKey(Tree) = Nil /\ minValue(Tree) = Nil
          /\ maxNode(Tree) = Nil /\ maxKey(Tree) = Nil /\ maxValue(Tree) = Nil
    /\ Present # {} =>
          /\ minNode(Tree) \in Reachable /\ heap[minNode(Tree)].key = Smallest
          /\ minKey(Tree) = Smallest /\ minValue(Tree) = contents[Smallest]
          /\ maxNode(Tree) \in Reachable /\ heap[maxNode(Tree)].key = Largest
          /\ maxKey(Tree) = Largest /\ maxValue(Tree) = contents[Largest]
    /\ last.op = "minNode" => last.node = minNode(Tree)
    /\ last.op = "maxNode" => last.node = maxNode(Tree)
    /\ (last.op = "minNode" /\ Present # {}) => heap[last.node].key = Smallest
    /\ (last.op = "maxNode" /\ Present # {}) => heap[last.node].key = Largest

\* maxNode on a tree of height three whose extremes carry different values.
ExtremesFoundWitness ==
    /\ last.op = "maxNode" /\ last.node # Nil /\ height(root) = 3
    /\ heap[last.node].parent # root
    /\ heap[last.node].key = Largest
    /\ minValue(Tree) # maxValue(Tree)

\* The node reached from the root by a path of "left" and "right" steps, and
\* its key (Nil if there is no such node).
RECURSIVE nodeAt(_, _)
nodeAt(n, path) ==
    IF n = Nil \/ path = <<>> THEN n
    ELSE nodeAt(IF Head(path) = "left" THEN heap[n].left ELSE heap[n].right, Tail(path))

NoneAt(path) == nodeAt(root, path) = Nil
keyAt(path) == IF NoneAt(path) THEN Nil ELSE heap[nodeAt(root, path)].key

\* The calls of the test, in its order.
RotationCalls == [i \in 1..Len(RotationKeys) |-> <<"insert", RotationKeys[i]>>]

\* C17: inserting 100, 50, 150, 25, 75, 12 in that order into an empty tree
\* triggers a single right rotation at the root (none up to the fifth insert,
\* whose root is 100; one at the sixth, after which 100 is the right child of
\* the new root) and yields exactly root 50, root.left 25, root.left.left 12,
\* root.right 100, root.right.left 75, root.right.right 150.
RotationTestShape ==
    /\ \A n \in 1..(Len(RotationCalls) - 1) :
          calls = SubSeq(RotationCalls, 1, n) =>
              last.rot = 0 /\ last.node # Nil /\ keyAt(<<>>) = 100
    /\ calls = RotationCalls =>
          /\ last.rot = 1 /\ last.node # Nil /\ size = 6
          /\ keyAt(<<>>) = 50
          /\ keyAt(<<"left">>) = 25
          /\ keyAt(<<"left", "left">>) = 12
          /\ keyAt(<<"right">>) = 100
          /\ keyAt(<<"right", "left">>) = 75
          /\ keyAt(<<"right", "right">>) = 150
          /\ NoneAt(<<"left", "right">>)
          /\ \A side \in {"left", "right"} :
                /\ NoneAt(<<"left", "left", side>>)
                /\ NoneAt(<<"right", "left", side>>)
                /\ NoneAt(<<"right", "right", side>>)

\* The test's six inserts have been made and the last one rotated.
RotationTestWitness ==
    calls = RotationCalls /\ last.op = "insert" /\ last.key = 12 /\ last.rot = 1

\* The calls of the README's usage example, in its order.
ReadmeCalls ==
    <<<<"set", 100>>, <<"set", 200>>, <<"set", 0>>, <<"delete", 200>>, <<"valueList", Nil>>>>

RECURSIVE MinNodes(_)
MinNodes(h) == IF h <= 0 THEN 0 ELSE IF h = 1 THEN 1 ELSE MinNodes(h - 1) + MinNodes(h - 2) + 1

\* C19: getNode(key) compares the key against at most h nodes, h the height
\* of the tree, and every reachable tree of n nodes has a height h with
\* n >= N(h), N(0) = 0, N(1) = 1, N(h) = N(h-1) + N(h-2) + 1, after any
\* sequence of inserts and deletes.
LookupLogarithmic ==
    /\ \A k \in Keys : getNodeComparisons(heap, root, k) <= height(root)
    /\ size >= MinNodes(height(root))
    /\ last.op = "getNode" => last.visited <= height(root)

\* A lookup that went down all four levels of a tree of N(4) = 7 nodes.
LookupLogarithmicWitness ==
    /\ last.op = "getNode" /\ last.visited = 4
    /\ height(root) = 4 /\ size = MinNodes(4)

\* C20 as stated: the number of nodes at(index) visits before it returns is
\* bounded by a multiple of the height of the tree (twice the height, the
\* bound of a walk down and up again) for every valid index, index = n - 1
\* included, and does not grow with index or n.
AtLogarithmicAsStated ==
    (last.op = "at" /\ last.err = NoError) => last.visited <= 2 * height(root)

\* C20 as amended: at(index) visits at least index + 1 and at most
\* index + height nodes before it returns, all n nodes for index = n - 1: the
\* number grows linearly with index.
AtVisitsLinear ==
    (last.op = "at" /\ last.err = NoError) =>
        /\ last.visited >= last.arg + 1
        /\ last.visited <= last.arg + height(root)
        /\ (last.arg = size - 1 => last.visited = size)

\* at(n - 1) on a tree of seven nodes and height three has visited all seven.
AtVisitsLinearWitness ==
    /\ last.op = "at" /\ last.err = NoError
    /\ size = 7 /\ height(root) = 3 /\ last.arg = size - 1 /\ last.visited = 7

\* The positions of the steps of the given kinds in a call's log
StepsOf(log, kinds) == {i \in DOMAIN log : log[i][1] \in kinds}

Heavy == {"leftHeavy", "rightHeavy"}
Rotation == {"rotateLeft", "rotateRight"}

\* The nodes strictly above n
RECURSIVE ancestors(_, _)
ancestors(h, n) ==
    IF h[n].parent = Nil THEN {} ELSE {h[n].parent} \cup ancestors(h, h[n].parent)

Inserted == last.op \in {"insert", "set"} /\ last.err = NoError /\ last.node # Nil

\* C21: a single insert applies at most one restructuring step, of one
\* rotation or of an inner rotation followed by an outer one, and its walk
\* ends there: the restructured subtree hangs where the unbalanced node hung,
\* is as high as that node's subtree was before the insertion, and no node
\* above it has its balance factor changed.
InsertRestructuresOnce ==
    [][(last'.op \in {"insert", "set"} /\ last'.err = NoError) =>
       LET log == last'.log
           heavy == StepsOf(log, Heavy)
           rotations == StepsOf(log, Rotation)
       IN  /\ Cardinality(heavy) <= 1
           /\ Cardinality(rotations) = last'.rot
           /\ heavy = {} => rotations = {}
           /\ \A i \in heavy :
                LET p == log[i][2]
                    top == log[Len(log)][2]
                IN  /\ log[Len(log)][1] = "top"
                    /\ rotations \in {{i + 1}, {i + 1, i + 2}}
                    /\ Len(log) = i + Cardinality(rotations) + 1
                    /\ heap[p] # Unallocated
                    /\ heap'[top].parent = heap[p].parent
                    /\ computeHeight(heap', top) = computeHeight(heap, p)
                    /\ \A a \in ancestors(heap, p) :
                         heap'[a].balanceFactor = heap[a].balanceFactor]_vars

\* an insert that did an inner and an outer rotation below the root
InsertRestructuresOnceWitness ==
    /\ Inserted
    /\ last.rot = 2
    /\ \E i \in StepsOf(last.log, {"top"}) : heap[last.log[i][2]].parent # Nil

\* The positions of the adjustments that left the balance factor at 0
ZeroSteps(log) == {i \in StepsOf(log, {"adjust"}) : log[i][3] = 0}

\* C22: during insert's upward walk, as soon as an ancestor's balance factor
\* becomes 0 the walk stops: that adjustment is the last step of the call, and
\* every node strictly above that ancestor keeps its balance factor, parent
\* and children (its whole record) exactly as before the insert.
InsertStopsAtZero ==
    [][(last'.op \in {"insert", "set"} /\ last'.err = NoError) =>
       \A i \in ZeroSteps(last'.log) :
           /\ i = Len(last'.log)
           /\ heap[last'.log[i][2]] # Unallocated
           /\ \A a \in ancestors(heap, last'.log[i][2]) : heap'[a] = heap[a]]_vars

\* an insert whose walk stopped at a zero below the root
InsertStopsAtZeroWitness ==
    /\ Inserted
    /\ \E i \in ZeroSteps(last.log) : ancestors(heap, last.log[i][2]) # {}

\* The steps from position i on are exactly the given ones, in order
StepsFrom(log, i, steps) ==
    /\ Len(log) >= i + Len(steps) - 1
    /\ \A j \in DOMAIN steps : log[i + j - 1] = steps[j]

\* The top step says that top has the given child on the given side
TopHas(step, top, side, child) ==
    /\ step[1] = "top"
    /\ step[2] = top
    /\ (IF side = "left" THEN step[3] ELSE step[4]) = child

\* C23: when an insert or delete drives a node p to balance factor -2 and
\* p.left has balance factor > 0, the call rotates left around p.left and then
\* right around p, and the former p.left.right is the subtree top with the
\* former p.left as its left child and p as its right child; when p.left's
\* factor is <= 0 only the rotation right around p is done and p.left is the
\* top with p as its right child.  The mirror image holds for +2, p.right and
\* a factor < 0 of p.right.
RotationSelected ==
    [][(last'.op \in {"insert", "set", "delete", "deleteNode"} /\ last'.err = NoError) =>
       LET log == last'.log IN
       \A i \in StepsOf(log, {"adjust"}) :
           LET p == log[i][2] IN
           /\ log[i][3] \in (0 - 2)..2
           /\ log[i][3] = 0 - 2 =>
                /\ Len(log) > i
                /\ log[i + 1][1] = "leftHeavy"
                /\ log[i + 1][2] = p
                /\ log[i + 1][3] = heap[p].left
                /\ LET child == log[i + 1][3]
                       inner == log[i + 1][5]
                   IN  IF log[i + 1][4] > 0
                       THEN StepsFrom(log, i + 2, <<<<"rotateLeft", child>>,
                                                     <<"rotateRight", p>>,
                                                     <<"top", inner, child, p>>>>)
                       ELSE /\ StepsFrom(log, i + 2, <<<<"rotateRight", p>>>>)
                            /\ Len(log) >= i + 3
                            /\ TopHas(log[i + 3], child, "right", p)
           /\ log[i][3] = 2 =>
                /\ Len(log) > i
                /\ log[i + 1][1] = "rightHeavy"
                /\ log[i + 1][2] = p
                /\ LET child == log[i + 1][3]
                       inner == log[i + 1][5]
                   IN  IF log[i + 1][4] < 0
                       THEN StepsFrom(log, i + 2, <<<<"rotateRight", child>>,
                                                     <<"rotateLeft", p>>,
                                                     <<"top", inner, p, child>>>>)
                       ELSE /\ StepsFrom(log, i + 2, <<<<"rotateLeft", p>>>>)
                            /\ Len(log) >= i + 3
                            /\ TopHas(log[i + 3], child, "left", p)]_vars

\* a delete that drove a node to +2 whose right child was left-heavy
RotationSelectedWitness ==
    /\ Removed
    /\ last.err = NoError
    /\ \E i \in StepsOf(last.log, {"rightHeavy"}) : last.log[i][4] < 0

\* C24: in delete's upward rebalance a rotation does not end the walk.  The
\* walk is done with a node after its adjustment and, at +-2, its rotation;
\* when the node it is then at (the new subtree top after a rotation) has
\* balance factor 0 and a parent, the next step adjusts that parent; the walk
\* ends only at a node whose factor is exactly +1 or -1 or that has no
\* parent; and the delete restores every invariant, however many levels it
\* rotated at.
DeleteWalksPastRotations ==
    [][(last'.op = "delete" /\ last'.found) =>
       LET log == last'.log IN
       /\ last'.err = NoError
       /\ log # <<>> => log[Len(log)][1] = "settled"
       /\ \A i \in StepsOf(log, {"top"}) : Len(log) > i /\ log[i + 1][1] = "settled"
                                           /\ log[i + 1][2] = log[i][2]
       /\ \A i \in StepsOf(log, {"settled"}) :
              /\ log[i][3] \in {-1, 0, 1}
              /\ IF log[i][3] = 0 /\ log[i][4] # Nil
                 THEN /\ Len(log) > i
                      /\ log[i + 1][1] = "adjust"
                      /\ log[i + 1][2] = log[i][4]
                 ELSE i = Len(log)
       /\ HeightBalanced'
       /\ BalanceFactorsExact'
       /\ SearchTreeOrder'
       /\ ParentLinksConsistent'
       /\ SizeCountsNodes'
       /\ size' = size - 1]_vars

\* a delete that rotated at two ancestor levels
DeleteWalksPastRotationsWitness ==
    /\ Removed
    /\ last.err = NoError
    /\ Cardinality(StepsOf(last.log, Heavy)) >= 2
    /\ HeightBalanced

\* The node that a call with the given key removes, when it has two children
TwoChildren(n) == n # Nil /\ heap[n].left # Nil /\ heap[n].right # Nil

\* The rightmost node of n's left subtree when n's balance factor is <= 0,
\* the leftmost node of its right subtree when it is > 0
Neighbour(n) ==
    IF heap[n].balanceFactor <= 0 THEN rightmost(heap, heap[n].left)
                                  ELSE leftmost(heap, heap[n].right)

\* C25: deleting a key whose node has two children substitutes the in-order
\* predecessor node (the rightmost node of its left subtree) when the node's
\* balance factor is <= 0 and the in-order successor node (the leftmost node
\* of its right subtree) when it is > 0: that node object stays in the tree
\* with its key and value, the deleted node object leaves it, and without a
\* rotation the substitute hangs where the deleted node hung; when the
\* deleted node was the root, the substitute is the root when delete returns.
DeleteSubstitutesNeighbour ==
    [][(last'.op \in {"delete", "deleteNode"}) =>
       LET n == getNode(Tree, last'.key) IN
       TwoChildren(n) =>
           /\ last'.err = NoError
           /\ last'.log # <<>>
           /\ last'.log[1][1] = "substitute"
           /\ last'.log[1][2] = n
           /\ last'.log[1][3] = Neighbour(n)
           /\ nodesOf(heap', root') = Reachable \ {n}
           /\ heap'[Neighbour(n)].key = heap[Neighbour(n)].key
           /\ heap'[Neighbour(n)].value = heap[Neighbour(n)].value
           /\ last'.rot = 0 => heap'[Neighbour(n)].parent = heap[n].parent
           /\ n = root => root' = Neighbour(n)]_vars

\* the root, right-heavy with two children, was deleted: its successor, which
\* had a right child, is the root
DeleteSubstitutesNeighbourWitness ==
    /\ Removed
    /\ last.kase = "successor"
    /\ last.atRoot
    /\ last.log # <<>>
    /\ last.log[1][1] = "substitute"
    /\ last.log[1][4] # Nil
    /\ root = last.log[1][3]

\* The child of the substitute that takes the substitute's place
Promoted(n) ==
    IF heap[n].balanceFactor <= 0 THEN heap[Neighbour(n)].left
                                  ELSE heap[Neighbour(n)].right

\* The node of the first adjustment of a log, Nil without one
FirstAdjusted(log) ==
    IF StepsOf(log, {"adjust"}) = {} THEN Nil
    ELSE log[CHOOSE i \in StepsOf(log, {"adjust"}) :
                 \A j \in StepsOf(log, {"adjust"}) : i <= j][2]

\* C26 as stated: in a two-children deletion the first node whose balance
\* factor is adjusted is the promoted child of the predecessor (successor)
\* when it had one, or the predecessor (successor) itself when it was the
\* deleted node's direct child.
FirstAdjustedAsStated ==
    [][(last'.op \in {"delete", "deleteNode"}) =>
       LET n == getNode(Tree, last'.key) IN
       TwoChildren(n) =>
           LET direct == heap[Neighbour(n)].parent = n IN
           /\ (Promoted(n) # Nil /\ ~direct) => FirstAdjusted(last'.log) = Promoted(n)
           /\ (Promoted(n) # Nil /\ direct) =>
                  FirstAdjusted(last'.log) \in {Promoted(n), Neighbour(n)}
           /\ (Promoted(n) = Nil /\ direct) => FirstAdjusted(last'.log) = Neighbour(n)]_vars

\* C26 as amended: in a two-children deletion the first node whose balance
\* factor is adjusted is the parent of the place the predecessor (successor)
\* left: the predecessor itself, now in the deleted node's place, when it was
\* the deleted node's direct child, and the predecessor's former parent
\* otherwise, whether or not a child was promoted; the promoted child's
\* balance factor is not adjusted at all.
FirstAdjustedIsParentOfGap ==
    [][(last'.op \in {"delete", "deleteNode"}) =>
       LET n == getNode(Tree, last'.key) IN
       TwoChildren(n) =>
           /\ FirstAdjusted(last'.log) =
                 IF heap[Neighbour(n)].parent = n THEN Neighbour(n)
                                                  ELSE heap[Neighbour(n)].parent
           /\ Promoted(n) # Nil =>
                 /\ heap'[Promoted(n)].parent = FirstAdjusted(last'.log)
                    \/ last'.rot > 0
                 /\ \A i \in StepsOf(last'.log, {"adjust"}) : last'.log[i][2] # Promoted(n)
                 /\ heap'[Promoted(n)].balanceFactor = heap[Promoted(n)].balanceFactor]_vars

\* a two-children deletion whose substitute was not the direct child and had
\* a child that was promoted
FirstAdjustedWitness ==
    /\ Removed
    /\ last.log # <<>>
    /\ last.log[1][1] = "substitute"
    /\ last.log[1][4] # Nil
    /\ last.log[1][5] # last.log[1][2]
    /\ FirstAdjusted(last.log) = last.log[1][5]

\* The keys of the subtree of n, left to right
RECURSIVE inOrder(_, _)
inOrder(h, n) ==
    IF n = Nil THEN <<>>
    ELSE inOrder(h, h[n].left) \o <<h[n].key>> \o inOrder(h, h[n].right)

\* The link of p that held x holds y, the rest of p is as it was
Relinked(p, x, y) ==
    /\ heap'[p].parent = heap[p].parent
    /\ heap'[p].balanceFactor = heap[p].balanceFactor
    /\ IF heap[p].left = x
       THEN heap'[p].left = y /\ heap'[p].right = heap[p].right
       ELSE heap'[p].right = y /\ heap'[p].left = heap[p].left

\* The record of n but for its parent, which is p
Reparented(n, p) == heap'[n] = [heap[n] EXCEPT !.parent = p]

\* C27: rotateLeft(x) with x.right = y present makes y the subtree top in the
\* parent slot x occupied (parentless if x had no parent), makes x the left
\* child of y and y's former left subtree the right subtree of x, updates
\* every affected parent back-link, returns y, changes no other link, and
\* leaves the subtree's node set and in-order key sequence unchanged;
\* rotateRight is the mirror image.
RotationRestructures ==
    [][(last'.op \in {"rotateLeft", "rotateRight"} /\ last'.err = NoError) =>
       LET x == last'.arg
           toLeft == last'.op = "rotateLeft"
           y == IF toLeft THEN heap[x].right ELSE heap[x].left
           inner == IF toLeft THEN heap[y].left ELSE heap[y].right
           p == heap[x].parent
       IN  /\ y # Nil
           /\ last'.node = y
           /\ heap'[y].parent = p
           /\ p # Nil => Relinked(p, x, y)
           /\ heap'[x].parent = y
           /\ IF toLeft
              THEN /\ heap'[y].left = x /\ heap'[y].right = heap[y].right
                   /\ heap'[x].right = inner /\ heap'[x].left = heap[x].left
              ELSE /\ heap'[y].right = x /\ heap'[y].left = heap[y].left
                   /\ heap'[x].left = inner /\ heap'[x].right = heap[x].right
           /\ inner # Nil => Reparented(inner, x)
           /\ \A n \in {x, y} : heap'[n].key = heap[n].key /\ heap'[n].value = heap[n].value
           /\ \A n \in NodeIds \ {x, y, p, inner} : heap'[n] = heap[n]
           /\ nodesOf(heap', y) = nodesOf(heap, x)
           /\ inOrder(heap', y) = inOrder(heap, x)]_vars

\* a rotation to the right below a parent that handed an inner subtree over
RotationRestructuresWitness ==
    /\ last.op = "rotateRight"
    /\ last.err = NoError
    /\ heap[last.node].parent # Nil
    /\ heap[last.arg].left # Nil
    /\ heap[last.node].right = last.arg

\* The stored balance factor of n is the height difference of its subtrees
Exact(h, n) ==
    h[n].balanceFactor = computeHeight(h, h[n].right) - computeHeight(h, h[n].left)

Max(a, b) == IF a > b THEN a ELSE b
Min(a, b) == IF a < b THEN a ELSE b

\* C28: when the stored balance factors of the rotated node (old, anywhere in
\* -2..2) and of the child that becomes the top (top) equal the true height
\* differences, rotateLeft leaves both stored factors equal to the true
\* height differences of the rotated shape, and they are
\* old' = old - 1 - max(top, 0) and top' = top - 1 + min(old', 0); rotateRight
\* does the same with old' = old + 1 - min(top, 0) and
\* top' = top + 1 + max(old', 0).
RotationFactorsExact ==
    [][(last'.op \in {"rotateLeft", "rotateRight"} /\ last'.err = NoError) =>
       LET x == last'.arg
           toLeft == last'.op = "rotateLeft"
           y == IF toLeft THEN heap[x].right ELSE heap[x].left
           old == heap[x].balanceFactor
           top == heap[y].balanceFactor
       IN  (Exact(heap, x) /\ Exact(heap, y) /\ old \in (0 - 2)..2) =>
               /\ Exact(heap', x)
               /\ Exact(heap', y)
               /\ IF toLeft
                  THEN /\ heap'[x].balanceFactor = old - 1 - Max(top, 0)
                       /\ heap'[y].balanceFactor = top - 1 + Min(heap'[x].balanceFactor, 0)
                  ELSE /\ heap'[x].balanceFactor = old + 1 - Min(top, 0)
                       /\ heap'[y].balanceFactor = top + 1 + Max(heap'[x].balanceFactor, 0)]_vars

\* a rotateLeft of a node with factor +2 whose right child was left-heavy,
\* with exact factors afterwards
RotationFactorsExactWitness ==
    /\ last.op = "rotateLeft"
    /\ last.err = NoError
    /\ last.before = <<2, 0 - 1>>
    /\ Exact(heap, last.arg)
    /\ Exact(heap, last.node)

\* C29: rotateLeft on a node without a right child, and rotateRight on a node
\* without a left child, fail with an error, return nothing and leave every
\* link and balance factor of the graph unchanged.
RotationWithoutChildFails ==
    [][(last'.op \in {"rotateLeft", "rotateRight"}) =>
       LET x == last'.arg
           toLeft == last'.op = "rotateLeft"
           y == IF toLeft THEN heap[x].right ELSE heap[x].left
       IN  IF y = Nil
           THEN /\ last'.err = IF toLeft THEN ErrRotateLeft ELSE ErrRotateRight
                /\ last'.node = Nil
                /\ heap' = heap
           ELSE last'.err = NoError]_vars

\* a rotateLeft that failed on a node that has a parent and a left child
RotationWithoutChildFailsWitness ==
    /\ last.op = "rotateLeft"
    /\ last.err = ErrRotateLeft
    /\ heap[last.arg].right = Nil
    /\ heap[last.arg].left # Nil
    /\ heap[last.arg].parent # Nil

\* What replaceChild(a, b) does to the parent side of a and b: a's former
\* parent p holds b where it held a, b.parent is p, b's previous parent q no
\* longer links to b (unless it is p, which links to b in a's place only),
\* a.parent is cleared, and no key, value or balance factor changes.
ParentSideReplaced(a, b) ==
    LET p == heap[a].parent
        q == heap[b].parent
    IN  /\ last'.err = NoError
        /\ heap'[b].parent = p
        /\ heap'[a].parent = Nil
        /\ p # Nil =>
              /\ heap[p].left = a => heap'[p].left = b
              /\ heap[p].left # a => heap'[p].right = b
              /\ heap'[p].parent = heap[p].parent
              /\ (heap[p].left \notin {a, b}) => heap'[p].left = heap[p].left
              /\ (heap[p].right \notin {a, b}) => heap'[p].right = heap[p].right
              /\ q = p => Cardinality({s \in {"left", "right"} :
                              (IF s = "left" THEN heap'[p].left ELSE heap'[p].right) = b}) = 1
        /\ (q # Nil /\ q # p) => heap'[q].left # b /\ heap'[q].right # b
        /\ (q # Nil /\ q # p /\ q # a) =>
              /\ heap'[q].parent = heap[q].parent
              /\ heap[q].left # b => heap'[q].left = heap[q].left
              /\ heap[q].right # b => heap'[q].right = heap[q].right
        /\ \A n \in NodeIds \ {a, b, p, q} : heap'[n] = heap[n]
        /\ \A n \in NodeIds :
              /\ heap'[n].key = heap[n].key
              /\ heap'[n].value = heap[n].value
              /\ heap'[n].balanceFactor = heap[n].balanceFactor

\* C30 as stated: replaceChild(oldChild, newChild) changes only parent-side
\* links, and neither oldChild's nor newChild's own left/right child links
\* are modified, for every placement of newChild (a sibling, an unrelated
\* node, or a direct child of oldChild).
ReplaceChildAsStated ==
    [][(last'.op = "replaceChild") =>
       LET a == last'.arg
           b == last'.other
       IN  /\ ParentSideReplaced(a, b)
           /\ heap'[a].left = heap[a].left /\ heap'[a].right = heap[a].right
           /\ heap'[b].left = heap[b].left /\ heap'[b].right = heap[b].right]_vars

\* C30 as amended: replaceChild(oldChild, newChild) changes only parent-side
\* links, and newChild's own left/right child links are not modified for any
\* placement of newChild; oldChild's are not modified when newChild is a
\* sibling or an unrelated node, and when newChild is a direct child of
\* oldChild the link of oldChild that held it is cleared and the other kept.
ReplaceChildFrame ==
    [][(last'.op = "replaceChild") =>
       LET a == last'.arg
           b == last'.other
       IN  /\ ParentSideReplaced(a, b)
           /\ heap'[b].left = heap[b].left /\ heap'[b].right = heap[b].right
           /\ heap'[a].left = IF heap[a].left = b THEN Nil ELSE heap[a].left
           /\ heap'[a].right = IF heap[a].right = b THEN Nil ELSE heap[a].right]_vars

\* replaceChild of a node that has a parent with its own direct child
ReplaceChildFrameWitness ==
    /\ last.op = "replaceChild"
    /\ last.err = NoError
    /\ last.before[1] # Nil
    /\ last.before[2] = last.arg
    /\ heap[last.other].parent = last.before[1]
    /\ heap[last.arg].left # last.other
    /\ heap[last.arg].right # last.other

\* The link of p that held n, "none" if neither did
SlotOf(h, p, n) ==
    IF h[p].left = n THEN "left" ELSE IF h[p].right = n THEN "right" ELSE "none"

\* The node in the given slot of p
InSlot(h, p, slot) == IF slot = "left" THEN h[p].left ELSE h[p].right

\* r is in node n's former place under n's former parent, or parentless if n
\* was; n has no parent and no children; r carries n's balance factor.
TakesPlace(n, r) ==
    LET p == heap[n].parent IN
    /\ last'.err = NoError
    /\ heap'[r].parent = p
    /\ p # Nil =>
          /\ SlotOf(heap, p, n) # "none"
          /\ InSlot(heap', p, SlotOf(heap, p, n)) = r
          /\ heap'[p].parent = heap[p].parent
    /\ heap'[r].balanceFactor = heap[n].balanceFactor
    /\ heap'[n].parent = Nil /\ heap'[n].left = Nil /\ heap'[n].right = Nil
    /\ \A m \in NodeIds : /\ heap'[m].key = heap[m].key
                          /\ heap'[m].value = heap[m].value
                          /\ m # r => heap'[m].balanceFactor = heap[m].balanceFactor

\* Child c of n, if any, is the child of r on the same side
Adopted(n, r, slot) ==
    LET c == InSlot(heap, n, slot) IN
    /\ InSlot(heap', r, slot) = c
    /\ c # Nil => heap'[c].parent = r

\* The former children of r have no parent and keep their own children
Orphaned(r) ==
    \A c \in {heap[r].left, heap[r].right} \ {Nil} :
        /\ heap'[c].parent = Nil
        /\ heap'[c].left = heap[c].left
        /\ heap'[c].right = heap[c].right

\* C31: replaceNode(node, replacement) with replacement not a direct child of
\* node: afterwards replacement sits in node's former parent slot on the same
\* side (or is parentless if node was), has node's former left and right
\* children with their parent links pointing to it, and carries node's
\* balance factor; the link by which replacement's previous parent held it is
\* empty and its previous children have no parent; node has no parent and no
\* children; no other link changes.
ReplaceNodeSplices ==
    [][(last'.op = "replaceNode" /\ heap[last'.other].parent # last'.arg) =>
       LET n == last'.arg
           r == last'.other
           p == heap[n].parent
           q == heap[r].parent
       IN  /\ TakesPlace(n, r)
           /\ Adopted(n, r, "left")
           /\ Adopted(n, r, "right")
           /\ Orphaned(r)
           /\ q # Nil =>
                 /\ SlotOf(heap, q, r) # "none"
                 /\ InSlot(heap', q, SlotOf(heap, q, r)) = Nil
                 /\ q # p => heap'[q].left # r /\ heap'[q].right # r
           /\ \A m \in NodeIds \ {n, r, p, q, heap[n].left, heap[n].right,
                                  heap[r].left, heap[r].right} : heap'[m] = heap[m]]_vars

\* replaceNode of a node with a parent and two children by a grandchild
ReplaceNodeSplicesWitness ==
    /\ last.op = "replaceNode"
    /\ last.err = NoError
    /\ last.before[1] # Nil
    /\ last.before[2] \in {last.before[3], last.before[4]} \ {Nil}
    /\ last.before[3] # Nil
    /\ last.before[4] # Nil
    /\ heap[last.other].left = last.before[3]
    /\ heap[last.other].right = last.before[4]

\* C32: replaceNode(node, replacement) when replacement is node's direct left
\* (right) child: replacement takes node's parent slot and node's other
\* child, its own left (right) slot is left empty rather than pointing at
\* itself, no node becomes its own parent or child, and replacement's former
\* children are orphaned.
ReplaceNodeByChild ==
    [][(last'.op = "replaceNode" /\ heap[last'.other].parent = last'.arg) =>
       LET n == last'.arg
           r == last'.other
           side == SlotOf(heap, n, r)
           otherSide == IF side = "left" THEN "right" ELSE "left"
       IN  /\ side # "none"
           /\ TakesPlace(n, r)
           /\ Adopted(n, r, otherSide)
           /\ InSlot(heap', r, side) = Nil
           /\ Orphaned(r)
           /\ \A m \in NodeIds : /\ heap'[m].parent # m \/ ~Created(m)
                                 /\ heap'[m].left # m
                                 /\ heap'[m].right # m
           /\ \A m \in NodeIds \ {n, r, heap[n].parent, heap[n].left, heap[n].right,
                                  heap[r].left, heap[r].right} : heap'[m] = heap[m]]_vars

\* replaceNode of a node with a parent and two children by its left child,
\* which had a child of its own
ReplaceNodeByChildWitness ==
    /\ last.op = "replaceNode"
    /\ last.err = NoError
    /\ last.before[1] # Nil
    /\ last.before[2] = last.arg
    /\ last.before[3] = last.other
    /\ last.before[4] # Nil
    /\ {last.before[5], last.before[6]} # {Nil}
    /\ heap[last.other].left = Nil
    /\ heap[last.other].right = last.before[4]

\* The entries of the abstract map in ascending key order
Ascending ==
    [i \in 1..Cardinality(Present) |->
        LET k == CHOOSE k \in Present : Cardinality(Below(k)) = i - 1
        IN  <<k, contents[k]>>]

IsPrefix(s, t) == Len(s) <= Len(t) /\ \A i \in 1..Len(s) : s[i] = t[i]

\* C33: iterators are independent.  Any number of iterators obtained from the
\* same tree, advanced in any interleaving and possibly given up midway, with
\* no mutation in between, each yield the ascending sequence of all entries
\* from the beginning: what one has yielded is always a prefix of it, an
\* advance yields the next entry of it, and one that ran to its end has
\* yielded all of it; advancing or giving up one changes neither the tree nor
\* any other iterator.
IteratorsIndependent ==
    [][/\ \A i \in DOMAIN iterators' :
             /\ IsPrefix(iterators'[i].out, Ascending')
             /\ (iterators'[i].g.at = "done" /\ ~iterators'[i].returned) =>
                    iterators'[i].out = Ascending'
       /\ last'.op \in {"iterator", "next", "return"} =>
             /\ heap' = heap /\ root' = root /\ size' = size
             /\ \A j \in DOMAIN iterators : j # last'.arg => iterators'[j] = iterators[j]
       /\ last'.op = "next" =>
             LET before == iterators[last'.arg] IN
             IF before.returned \/ Len(before.out) = Len(Ascending)
             THEN last'.found /\ iterators'[last'.arg].out = before.out
             ELSE /\ ~last'.found
                  /\ last'.entry = Ascending[Len(before.out) + 1]
                  /\ iterators'[last'.arg].out = Append(before.out, last'.entry)]_vars

\* of two iterators on a tree of three or more entries, the first was given
\* up after two entries and the second ran to its end
IteratorsIndependentWitness ==
    /\ size >= 3
    /\ Len(iterators) = 2
    /\ iterators[1].returned
    /\ Len(iterators[1].out) = 2
    /\ ~iterators[2].returned
    /\ iterators[2].g.at = "done"
    /\ iterators[2].out = Ascending
    /\ last.op = "next"
    /\ last.arg = 2

\* C34: every call that has begun on a reachable tree returns: the descent of
\* getNode, insert and delete, the upward walks of rebalanceAfterInsertion and
\* of rebalanceAfterDeletion (past a rotation too), the walks of predecessor
\* and successor and a full iteration all end after finitely many iterations
\* of their loops.
EveryCallReturns == (running.op # "idle") ~> (running.op = "idle")

\* A delete has returned whose upward walk went on past a rotation and rotated
\* again higher up.
EveryCallReturnsWitness ==
    /\ running.op = "idle"
    /\ Len(calls) > Len(DeepKeys)
    /\ last.op = "delete"
    /\ last.rot >= 2

\* The node object n has no parent, no left child and no right child in the
\* tree s, and no node of s links to it.
Detached(s, n) ==
    /\ s.heap[n].parent = Nil
    /\ s.heap[n].left = Nil
    /\ s.heap[n].right = Nil
    /\ \A live \in {nodesOf(s.heap, s.root)} :
          /\ n \notin live
          /\ \A m \in live :
                /\ s.heap[m].parent # n
                /\ s.heap[m].left # n
                /\ s.heap[m].right # n

\* The node a step of delete(k) or deleteNode(n) removes.
RemovedNode == IF last'.op = "delete" THEN getNode(Tree, last'.key) ELSE last'.arg

\* C35: when delete(k) or deleteNode(n) returns, the removed node object has
\* no parent, no left child and no right child and no node of the tree links
\* to it, whichever branch of deleteNode was taken (the step leaves the tree
\* deleteNode makes, in which the node object is looked at before it is given
\* up).
RemovedNodeDetached ==
    [][last'.op \in {"delete", "deleteNode"}
       => \A n \in {RemovedNode} \ {Nil} : \A s \in {deleteNode(Tree, n)} :
          /\ Ok(s)
          /\ root' = s.root
          /\ heap' = reclaim(s.heap, nodesOf(s.heap, s.root))
          /\ Detached(s, n)
          /\ heap'[n] = Unallocated]_vars

\* A node with two children was removed through its successor and it was the
\* root.
RemovedNodeDetachedWitness ==
    /\ last.op \in {"delete", "deleteNode"}
    /\ last.kase = "successor"
    /\ last.atRoot
    /\ last.err = NoError

\* C36: deleteNode called again with a node object that an earlier delete
\* removed throws 'Cannot disconnect child node because node has no parent'
\* and leaves root, size and every link and balance factor of the tree as
\* they were, also when the tree is empty by then or the node's key has been
\* inserted again.
StaleDeleteNodeFails ==
    [][(last'.op = "deleteNode" /\ Len(calls') > Len(calls))
       => /\ last'.arg \in Held
          /\ last'.err = ErrNoParent
          /\ root' = root
          /\ size' = size
          /\ heap' = heap]_vars

\* deleteNode was called with a removed node object whose key was inserted
\* again in the meantime and is in the tree, under another node object.
StaleDeleteNodeFailsWitness ==
    /\ last.op = "deleteNode"
    /\ last.err = ErrNoParent
    /\ has(Tree, last.key)
    /\ getNode(Tree, last.key) # last.arg
    /\ size >= 2

\* The tree a constructor call makes: no root, size 0, no node object.
NewTree ==
    [heap |-> [n \in NodeIds |-> Unallocated], root |-> Nil, size |-> 0, err |-> NoError,
     ret |-> Nil, rot |-> 0, log |-> <<>>]

\* C37: clear() leaves no root and size 0, every key absent and an iteration
\* that yields nothing; the tree it leaves is the tree a constructor call
\* makes, so that every sequence of calls after it goes as on a new tree.
ClearMakesNewTree ==
    [][last'.op = "clear"
       => /\ root' = Nil
          /\ size' = 0
          /\ \A k \in Keys : ~has(TreeAfter, k)
          /\ entryList(TreeAfter) = <<>>
          /\ TreeAfter = NewTree
          /\ last'.err = NoError]_vars

\* clear() was called on a tree of at least three entries.
ClearMakesNewTreeWitness ==
    /\ last.op = "clear"
    /\ last.before[1] >= 3
    /\ Tree = NewTree

\* C38: in every sequence of insert, set, delete, deleteNode on a node of the
\* tree and clear, with the read-only calls in between, no call ends with one
\* of the internal errors ('Invariant failed ...', 'Cannot rotate left / right
\* without a right / left child', 'Cannot disconnect child node because node
\* has no parent'): the only errors are the one set throws for a key that
\* exists and the one at throws for an index out of bounds.
NoInternalFailure ==
    /\ last.err \in {NoError, ErrKeyExists, ErrIndexOutOfBounds}
    /\ last.err = ErrKeyExists => last.op = "set"
    /\ last.err = ErrIndexOutOfBounds => last.op = "at"

\* A delete of a node with two children that started the upward walk, rotated
\* twice and returned without an error on a tree that keeps six entries.
NoInternalFailureWitness ==
    /\ last.op = "delete"
    /\ last.kase \in {"predecessor", "successor"}
    /\ last.rot = 2
    /\ last.err = NoError
    /\ size = MaxKey - 1

\* The substitutions of a call's log that took the successor: the substitute
\* is the leftmost node of the deleted node's right subtree.
BySuccessor(log) ==
    {i \in StepsOf(log, {"substitute"}) : log[i][3] = leftmost(heap, heap[log[i][2]].right)}

\* C39: in a tree reachable by insert and delete, a node with two children
\* and a balance factor > 0 whose successor has no right child does not have
\* that successor as its direct right child; so no deletion takes the branch
\* that starts the rebalance at the successor itself with the removal
\* recorded as on the left.
SuccessorLeafNeverDirect ==
    [][/\ \A n \in Reachable :
             (TwoChildren(n) /\ heap[n].balanceFactor > 0
                 /\ heap[leftmost(heap, heap[n].right)].right = Nil)
             => leftmost(heap, heap[n].right) # heap[n].right
       /\ last'.op \in {"delete", "deleteNode"}
             => \A i \in BySuccessor(last'.log) :
                   last'.log[i][4] = Nil => last'.log[i][5] # last'.log[i][2]]_vars

\* A node with two children was removed through its successor, which had no
\* right child and was deeper than the node's right child.
SuccessorLeafNeverDirectWitness ==
    /\ last.op \in {"delete", "deleteNode"}
    /\ last.kase = "successor"
    /\ \E i \in StepsOf(last.log, {"substitute"}) :
          /\ last.log[i][4] = Nil
          /\ last.log[i][5] # last.log[i][2]
    /\ last.err = NoError

====
